---- MODULE Spec2Model ----
(***************************************************************************)
(* Template resolution engine of syntaxis: version dispatch, the V1        *)
(* (bracket) and V2 (grouping) template parsers, reference validation,     *)
(* feature resolution / merging and the per-token lexicon lookups.         *)
(*                                                                         *)
(* Template text is modelled as a sequence of one-character strings, so    *)
(* that trimming, delimiter counting, pattern scanning and prefix matching *)
(* are computed on the characters as the Python code computes them.        *)
(***************************************************************************)
EXTENDS Integers, Sequences, FiniteSets, TLC

(***************************************************************************)
(* Bounds of the model.                                                    *)
(***************************************************************************)
\* largest number of groups in a generated grouping template
MaxGroups == 3

\* largest number of generate_sentence calls made in turn on one engine
MaxCalls == 3

\* number of callers whose generate_sentence calls are interleaved
MaxCallers == 2

None == "None"

\* the value None of an Optional[int] field (a parsed \d+ is never negative)
NoReference == -1

(***************************************************************************)
(* Characters and elementary string operations (Python str methods).       *)
(***************************************************************************)
Whitespace == {" ", "\t", "\n"}

Digits == {"0", "1", "2", "3", "4", "5", "6", "7", "8", "9"}

Letters ==
  {"a", "b", "c", "d", "e", "f", "g", "h", "i", "j", "k", "l", "m",
   "n", "o", "p", "q", "r", "s", "t", "u", "v", "w", "x", "y", "z"}

\* the characters matched by the regular expression class \w
WordChars == Letters \cup Digits \cup {"_"}

\* s[i..] ; the empty sequence when i is past the end
Drop(s, i) == SubSeq(s, i, Len(s))

\* str.strip(chars): drop every leading and trailing character of the set
RECURSIVE LStripSet(_, _)
LStripSet(s, cs) ==
  IF s = <<>> THEN <<>>
  ELSE IF Head(s) \in cs THEN LStripSet(Tail(s), cs) ELSE s

RECURSIVE RStripSet(_, _)
RStripSet(s, cs) ==
  IF s = <<>> THEN <<>>
  ELSE IF s[Len(s)] \in cs THEN RStripSet(SubSeq(s, 1, Len(s) - 1), cs) ELSE s

StripSet(s, cs) == RStripSet(LStripSet(s, cs), cs)

\* str.strip()
Strip(s) == StripSet(s, Whitespace)

\* str.count(ch) for a one-character ch
Count(s, ch) == Cardinality({i \in 1..Len(s) : s[i] = ch})

\* str.startswith
StartsWith(s, p) == Len(p) <= Len(s) /\ SubSeq(s, 1, Len(p)) = p

\* least index i >= from with s[i] in cs, or 0 when there is none
FirstIn(s, from, cs) ==
  LET hits == {i \in from..Len(s) : s[i] \in cs}
  IN IF hits = {} THEN 0 ELSE CHOOSE i \in hits : \A j \in hits : i <= j

\* least index i >= from with s[i] not in cs, or Len(s)+1 when there is none
FirstNotIn(s, from, cs) ==
  LET hits == {i \in from..Len(s) : s[i] \notin cs}
  IN IF hits = {} THEN Len(s) + 1 ELSE CHOOSE i \in hits : \A j \in hits : i <= j

\* str.split(sep) for a one-character separator
RECURSIVE Split(_, _)
Split(s, sep) ==
  LET i == FirstIn(s, 1, {sep})
  IN IF i = 0 THEN <<s>>
     ELSE <<SubSeq(s, 1, i - 1)>> \o Split(Drop(s, i + 1), sep)

\* int(digits)
DigitValue(d) ==
  CASE d = "0" -> 0 [] d = "1" -> 1 [] d = "2" -> 2 [] d = "3" -> 3
    [] d = "4" -> 4 [] d = "5" -> 5 [] d = "6" -> 6 [] d = "7" -> 7
    [] d = "8" -> 8 [] d = "9" -> 9

RECURSIVE ParseInt(_)
ParseInt(ds) ==
  IF ds = <<>> THEN 0
  ELSE 10 * ParseInt(SubSeq(ds, 1, Len(ds) - 1)) + DigitValue(ds[Len(ds)])

(***************************************************************************)
(* constants.py: lexical types, feature values and their categories.       *)
(***************************************************************************)
NOUN        == <<"n", "o", "u", "n">>
VERB        == <<"v", "e", "r", "b">>
ADJECTIVE   == <<"a", "d", "j", "e", "c", "t", "i", "v", "e">>
ADVERB      == <<"a", "d", "v", "e", "r", "b">>
ARTICLE     == <<"a", "r", "t", "i", "c", "l", "e">>
PRONOUN     == <<"p", "r", "o", "n", "o", "u", "n">>
NUMERAL     == <<"n", "u", "m", "e", "r", "a", "l">>
PREPOSITION == <<"p", "r", "e", "p", "o", "s", "i", "t", "i", "o", "n">>
CONJUNCTION == <<"c", "o", "n", "j", "u", "n", "c", "t", "i", "o", "n">>

LEXICAL_VALUES ==
  {NOUN, VERB, ADJECTIVE, ADVERB, ARTICLE, PRONOUN, NUMERAL, PREPOSITION,
   CONJUNCTION}

GENDER == <<"g", "e", "n", "d", "e", "r">>
NUMBER == <<"n", "u", "m", "b", "e", "r">>
CASE_  == <<"c", "a", "s", "e">>
TENSE  == <<"t", "e", "n", "s", "e">>
VOICE  == <<"v", "o", "i", "c", "e">>
MOOD   == <<"m", "o", "o", "d">>
PERSON == <<"p", "e", "r", "s", "o", "n">>
TYPE   == <<"t", "y", "p", "e">>

PERSONAL_STRONG ==
  <<"p", "e", "r", "s", "o", "n", "a", "l", "_", "s", "t", "r", "o", "n", "g">>
PERSONAL_WEAK ==
  <<"p", "e", "r", "s", "o", "n", "a", "l", "_", "w", "e", "a", "k">>
DEMONSTRATIVE ==
  <<"d", "e", "m", "o", "n", "s", "t", "r", "a", "t", "i", "v", "e">>
INTERROGATIVE ==
  <<"i", "n", "t", "e", "r", "r", "o", "g", "a", "t", "i", "v", "e">>
POSSESSIVE == <<"p", "o", "s", "s", "e", "s", "s", "i", "v", "e">>
RELATIVE   == <<"r", "e", "l", "a", "t", "i", "v", "e">>
DEFINITE   == <<"d", "e", "f", "i", "n", "i", "t", "e">>
INDEFINITE == <<"i", "n", "d", "e", "f", "i", "n", "i", "t", "e">>
PRONOUN_TYPES ==
  {PERSONAL_STRONG, PERSONAL_WEAK, DEMONSTRATIVE, INTERROGATIVE, POSSESSIVE,
   RELATIVE, INDEFINITE}

MASCULINE == <<"m", "a", "s", "c">>
FEMININE  == <<"f", "e", "m">>
NEUTER    == <<"n", "e", "u", "t">>
GENDER_WILDCARD == <<"*">> \o GENDER \o <<"*">>
GENDER_VALUES == {MASCULINE, FEMININE, NEUTER, GENDER_WILDCARD}

SINGULAR == <<"s", "g">>
PLURAL   == <<"p", "l">>
NUMBER_WILDCARD == <<"*">> \o NUMBER \o <<"*">>
NUMBER_VALUES == {SINGULAR, PLURAL, NUMBER_WILDCARD}

NOMINATIVE == <<"n", "o", "m">>
ACCUSATIVE == <<"a", "c", "c">>
GENITIVE   == <<"g", "e", "n">>
VOCATIVE   == <<"v", "o", "c">>
CASE_VALUES == {NOMINATIVE, ACCUSATIVE, GENITIVE, VOCATIVE}

PRESENT     == <<"p", "r", "e", "s", "e", "n", "t">>
AORIST      == <<"a", "o", "r", "i", "s", "t">>
PARATATIKOS == <<"p", "a", "r", "a", "t", "a", "t", "i", "k", "o", "s">>
TENSE_VALUES == {PRESENT, AORIST, PARATATIKOS}

ACTIVE  == <<"a", "c", "t", "i", "v", "e">>
PASSIVE == <<"p", "a", "s", "s", "i", "v", "e">>
VOICE_VALUES == {ACTIVE, PASSIVE}

INDICATIVE == <<"i", "n", "d">>
IMPERATIVE == <<"i", "m", "p">>
MOOD_VALUES == {INDICATIVE, IMPERATIVE}

FIRST  == <<"p", "r", "i">>
SECOND == <<"s", "e", "c">>
THIRD  == <<"t", "e", "r">>
PERSON_WILDCARD == <<"*">> \o PERSON \o <<"*">>
PERSON_VALUES == {FIRST, SECOND, THIRD, PERSON_WILDCARD}

\* the dict FEATURE_CATEGORIES as its (key, value) items in insertion order
FEATURE_CATEGORIES ==
  << <<NOMINATIVE, CASE_>>, <<GENITIVE, CASE_>>, <<ACCUSATIVE, CASE_>>,
     <<VOCATIVE, CASE_>>,
     <<MASCULINE, GENDER>>, <<FEMININE, GENDER>>, <<NEUTER, GENDER>>,
     <<GENDER, GENDER>>, <<GENDER_WILDCARD, GENDER>>,
     <<SINGULAR, NUMBER>>, <<PLURAL, NUMBER>>, <<NUMBER, NUMBER>>,
     <<NUMBER_WILDCARD, NUMBER>>,
     <<PRESENT, TENSE>>, <<AORIST, TENSE>>, <<PARATATIKOS, TENSE>>,
     <<ACTIVE, VOICE>>, <<PASSIVE, VOICE>>,
     <<FIRST, PERSON>>, <<SECOND, PERSON>>, <<THIRD, PERSON>>,
     <<PERSON, PERSON>>, <<PERSON_WILDCARD, PERSON>>,
     <<PERSONAL_STRONG, TYPE>>, <<PERSONAL_WEAK, TYPE>>,
     <<DEMONSTRATIVE, TYPE>>, <<INTERROGATIVE, TYPE>>, <<POSSESSIVE, TYPE>>,
     <<RELATIVE, TYPE>>, <<DEFINITE, TYPE>>, <<INDEFINITE, TYPE>> >>

\* VALID_CASE_FEATURES.get(lexical, set())
VALID_CASE_FEATURES(lexical) ==
  CASE lexical \in {NOUN, ADJECTIVE, ARTICLE} -> {NUMBER, CASE_, GENDER}
    [] lexical = PRONOUN -> {NUMBER, CASE_, GENDER, PERSON, TYPE}
    [] lexical = VERB -> {NUMBER, CASE_, PERSON, TENSE, VOICE, MOOD}
    [] OTHER -> {}

\* the keys of LEXICAL_TO_TABLE_MAP
LEXICAL_TO_TABLE_MAP ==
  {NOUN, VERB, ADJECTIVE, ARTICLE, PRONOUN, ADVERB, PREPOSITION, CONJUNCTION}

(***************************************************************************)
(* Results of operations that may raise: either [ok |-> TRUE, val |-> v]   *)
(* or [ok |-> FALSE, err |-> e] with e the exception raised.               *)
(***************************************************************************)
Ok(v) == [ok |-> TRUE, val |-> v]

\* an exception: its class, the raise statement it comes from (named after
\* its message) and the values its message carries: the lexical type and the
\* feature names of the no-match error, the name and the conflicts of the
\* errors of the mappers
Error(type, kind, lexical, features) ==
  [type |-> type, kind |-> kind, lexical |-> lexical, features |-> features]

Raise(type, kind) == [ok |-> FALSE, err |-> Error(type, kind, <<>>, <<>>)]

\* raise an exception whose message names a token and lists candidates
RaiseFor(type, kind, name, conflicts) ==
  [ok |-> FALSE, err |-> Error(type, kind, name, conflicts)]

(***************************************************************************)
(* Sequencing of operations that may raise.                                *)
(***************************************************************************)
\* first, then rest, the values collected in a list; the first exception
\* raised ends it
Cons(first, rest) ==
  IF ~first.ok THEN first
  ELSE IF ~rest.ok THEN rest
  ELSE Ok(<<first.val>> \o rest.val)

(***************************************************************************)
(* feature_mapper.py                                                       *)
(***************************************************************************)
Feature(name, category) == [name |-> name, category |-> category]

\* table[key] for a dict given as its items
ItemValue(table, key) ==
  table[CHOOSE i \in 1..Len(table) : table[i][1] = key][2]

\* the keys of table that start with prefix
PrefixMatches(table, prefix) ==
  {table[i][1] : i \in {j \in 1..Len(table) : StartsWith(table[j][1], prefix)}}

\* " ".join(valid_features): the matching keys in the order of the table
Conflicts(table, valid_features) ==
  SelectSeq([i \in 1..Len(table) |-> table[i][1]],
            LAMBDA k : k \in valid_features)

\* FeatureMapper.get_category, lines 32-42, on the prefix matches
UniqueMatch(table, feature_name, valid_features) ==
  IF valid_features = {}
    THEN RaiseFor("ValueError", "UnknownFeature", feature_name, <<>>)
  ELSE IF Cardinality(valid_features) > 1
    THEN RaiseFor("ValueError", "AmbiguousFeature", feature_name,
                  Conflicts(table, valid_features))
  ELSE Ok(Feature(CHOOSE k \in valid_features : TRUE,
                  ItemValue(table, CHOOSE k \in valid_features : TRUE)))

\* CategoryIn without the exact match: prefix matches only
CategoryIn_PrefixOnly(table, feature_name) ==
  UniqueMatch(table, feature_name, PrefixMatches(table, feature_name))

\* FeatureMapper.get_category over the dict table: exact match first, then
\* unique prefix match
CategoryIn(table, feature_name) ==
  IF \E i \in 1..Len(table) : table[i][1] = feature_name
    THEN Ok(Feature(feature_name, ItemValue(table, feature_name)))
    ELSE UniqueMatch(table, feature_name, PrefixMatches(table, feature_name))

\* FeatureMapper.get_category
get_category(feature_name) == CategoryIn(FEATURE_CATEGORIES, feature_name)

(***************************************************************************)
(* lexical_mapper.py                                                       *)
(***************************************************************************)
\* UniqueLexical without the test for several matches: valid_lexicals.pop()
\* of whatever matched
UniqueLexical_AnyMatch(lexical_name, valid_lexicals) ==
  IF valid_lexicals = {}
    THEN RaiseFor("ValueError", "UnknownLexicalType", lexical_name, {})
  ELSE Ok(CHOOSE lexical \in valid_lexicals : TRUE)

\* LexicalMapper.get_lexical, lines 31-41, on the prefix matches; the order
\* of the conflicts is that of a set iteration, so they are kept as a set
UniqueLexical(lexical_name, valid_lexicals) ==
  IF valid_lexicals = {}
    THEN RaiseFor("ValueError", "UnknownLexicalType", lexical_name, {})
  ELSE IF Cardinality(valid_lexicals) > 1
    THEN RaiseFor("ValueError", "AmbiguousLexicalType", lexical_name,
                  valid_lexicals)
  ELSE Ok(CHOOSE lexical \in valid_lexicals : TRUE)

\* LexicalMapper.get_lexical: prefix match against LEXICAL_VALUES
get_lexical(lexical_name) ==
  UniqueLexical(lexical_name,
                {lexical \in LEXICAL_VALUES : StartsWith(lexical, lexical_name)})

(***************************************************************************)
(* ast.py                                                                  *)
(***************************************************************************)
POSToken(lexical, direct_features) ==
  [lexical |-> lexical, direct_features |-> direct_features]

Group(tokens, group_features, reference_id, references) ==
  [tokens |-> tokens, group_features |-> group_features,
   reference_id |-> reference_id, references |-> references]

TemplateAST(groups, version) == [groups |-> groups, version |-> version]

(***************************************************************************)
(* v2_parser.py                                                            *)
(***************************************************************************)
RECURSIVE ParseFeatureNames(_)

\* V2Parser._parse_features, lines 118-121: one stripped name, then the rest
ParseFeatureName(name, others) ==
  IF name = <<>> THEN ParseFeatureNames(others)
  ELSE Cons(get_category(name), ParseFeatureNames(others))

\* the loop of V2Parser._parse_features over the split names
ParseFeatureNames(feature_names) ==
  IF feature_names = <<>> THEN Ok(<<>>)
  ELSE ParseFeatureName(Strip(Head(feature_names)), Tail(feature_names))

\* V2Parser._parse_features: strip the braces, split on ":", map each name
V2_parse_features(features_str) ==
  ParseFeatureNames(Split(StripSet(features_str, {"{", "}"}), ":"))

\* token_pattern (\w+)(?:\{([^}]+)\})? : the word run s[p..e-1] and, when q
\* is the closing brace of a non-empty {...} right after it, its contents
TokenMatchAt(s, p, e, q) ==
  [found |-> TRUE,
   lexical |-> SubSeq(s, p, e - 1),
   direct |-> IF q > e + 1 THEN SubSeq(s, e + 1, q - 1) ELSE <<>>,
   next |-> IF q > e + 1 THEN q + 1 ELSE e]

\* the word run starting at p ends before e
TokenMatchRun(s, p, e) ==
  TokenMatchAt(s, p, e,
               IF e <= Len(s) /\ s[e] = "{" THEN FirstIn(s, e + 1, {"}"})
               ELSE 0)

\* the match starts at the first word character p, if there is one
TokenMatchFrom(s, p) ==
  IF p = 0 THEN [found |-> FALSE]
  ELSE TokenMatchRun(s, p, FirstNotIn(s, p, WordChars))

\* the next match of token_pattern at or after from
TokenMatch(s, from) == TokenMatchFrom(s, FirstIn(s, from, WordChars))

\* V2Parser._parse_tokens, lines 98-101: the direct features of a match
DirectFeatures(direct_features_str) ==
  IF direct_features_str # <<>>
    THEN V2_parse_features(<<"{">> \o direct_features_str \o <<"}">>)
    ELSE Ok(<<>>)

\* V2Parser._parse_tokens, line 103, given the parsed direct features
MakeToken(lexical, direct_features) ==
  IF ~direct_features.ok THEN direct_features
  ELSE Ok(POSToken(lexical, direct_features.val))

RECURSIVE ScanTokens(_, _)

\* one iteration of the finditer loop of V2Parser._parse_tokens
ScanToken(s, m) ==
  IF ~m.found THEN Ok(<<>>)
  ELSE Cons(MakeToken(m.lexical, DirectFeatures(m.direct)),
            ScanTokens(s, m.next))

\* the finditer loop of V2Parser._parse_tokens
ScanTokens(s, from) == ScanToken(s, TokenMatch(s, from))

\* V2Parser._parse_tokens
V2_parse_tokens(tokens_str) == ScanTokens(tokens_str, 1)

\* the end of a spec \{[^}]+\} or \$\d+ starting at r, 0 when neither matches
SpecEnd(s, r, c) ==
  IF c > r + 1 THEN c
  ELSE IF r < Len(s) /\ s[r] = "$" /\ s[r + 1] \in Digits
    THEN FirstNotIn(s, r + 1, Digits) - 1
  ELSE 0

\* group_pattern with "(" at p, the first ")" at q and the spec ending at e
GroupMatchEnd(s, p, q, e) ==
  IF e = 0 THEN [found |-> FALSE]
  ELSE [found |-> TRUE, tokens |-> SubSeq(s, p + 1, q - 1),
        spec |-> SubSeq(s, q + 2, e), next |-> e + 1]

\* group_pattern with "(" at p and the first ")" after it at q
GroupMatchClose(s, p, q) ==
  IF q > p + 1 /\ q < Len(s) /\ s[q + 1] = "@"
    THEN GroupMatchEnd(s, p, q,
           SpecEnd(s, q + 2,
                   IF q + 2 <= Len(s) /\ s[q + 2] = "{"
                     THEN FirstIn(s, q + 3, {"}"}) ELSE 0))
    ELSE [found |-> FALSE]

\* a match of group_pattern \(([^)]+)\)@(\{[^}]+\}|\$\d+) starting exactly
\* at position p; [found, tokens, spec, next]
GroupMatchAt(s, p) ==
  IF s[p] = "(" THEN GroupMatchClose(s, p, FirstIn(s, p + 1, {")"}))
  ELSE [found |-> FALSE]

\* re.search(r"\(\s*\)@", template_str)
HasEmptyGroup(s) ==
  \E p \in 1..Len(s) :
    /\ s[p] = "("
    /\ \E q \in {FirstNotIn(s, p + 1, Whitespace)} :
         q < Len(s) /\ s[q] = ")" /\ s[q + 1] = "@"

\* MakeGroup that numbers a referencing group by the $N it was written with
MakeGroup_NumberedByReference(tokens, spec, features, reference_id) ==
  IF ~tokens.ok THEN tokens
  ELSE IF Head(spec) = "$"
    THEN Ok(Group(tokens.val, <<>>, ParseInt(Tail(spec)),
                  ParseInt(Tail(spec))))
  ELSE IF ~features.ok THEN features
  ELSE Ok(Group(tokens.val, features.val, reference_id, NoReference))

\* V2Parser._parse_groups, lines 62-79: the group of a match
MakeGroup(tokens, spec, features, reference_id) ==
  IF ~tokens.ok THEN tokens
  ELSE IF Head(spec) = "$"
    THEN Ok(Group(tokens.val, <<>>, reference_id, ParseInt(Tail(spec))))
  ELSE IF ~features.ok THEN features
  ELSE Ok(Group(tokens.val, features.val, reference_id, NoReference))

RECURSIVE ScanGroups(_, _, _)

\* V2Parser._parse_groups, lines 50-82: one match m with tokens_str stripped
ScanGroup(s, m, tokens_str, reference_id) ==
  IF tokens_str = <<>> THEN Raise("ValueError", "EmptyGroup")
  ELSE Cons(MakeGroup(V2_parse_tokens(tokens_str), m.spec,
                      V2_parse_features(m.spec), reference_id),
            ScanGroups(s, m.next, reference_id + 1))

\* the leftmost match of group_pattern among the start positions
FirstGroupMatch(s, starts) ==
  GroupMatchAt(s, CHOOSE p \in starts : \A p2 \in starts : p <= p2)

\* the step of the finditer loop of V2Parser._parse_groups on its match
ScanMatch(s, m, reference_id) ==
  ScanGroup(s, m, Strip(m.tokens), reference_id)

\* the finditer loop of V2Parser._parse_groups, given the positions where
\* group_pattern matches
ScanStarts(s, starts, reference_id) ==
  IF starts = {} THEN Ok(<<>>)
  ELSE ScanMatch(s, FirstGroupMatch(s, starts), reference_id)

\* ScanGroups that refuses text after the last match instead of passing it over
ScanGroups_RefusesRest(s, from, reference_id) ==
  IF /\ \A p \in from..Len(s) : ~GroupMatchAt(s, p).found
     /\ \E p \in from..Len(s) : s[p] \notin Whitespace
    THEN Raise("ValueError", "UnmatchedText")
    ELSE ScanStarts(s, {p \in from..Len(s) : GroupMatchAt(s, p).found},
                    reference_id)

ScanGroups(s, from, reference_id) ==
  ScanStarts(s, {p \in from..Len(s) : GroupMatchAt(s, p).found}, reference_id)

\* V2Parser._parse_groups without the search for an empty group in the raw
\* text: only the test inside the loop is left
V2_parse_groups_NoSearch(template_str) ==
  IF Count(template_str, "(") # Count(template_str, ")")
    THEN Raise("ValueError", "UnbalancedDelimiters")
  ELSE IF Count(template_str, "{") # Count(template_str, "}")
    THEN Raise("ValueError", "UnbalancedBraces")
  ELSE ScanGroups(template_str, 1, 1)

\* V2Parser._parse_groups
V2_parse_groups(template_str) ==
  IF Count(template_str, "(") # Count(template_str, ")")
    THEN Raise("ValueError", "UnbalancedDelimiters")
  ELSE IF Count(template_str, "{") # Count(template_str, "}")
    THEN Raise("ValueError", "UnbalancedBraces")
  ELSE IF HasEmptyGroup(template_str)
    THEN Raise("ValueError", "EmptyGroup")
  ELSE ScanGroups(template_str, 1, 1)

\* ReferenceError with the two checks in the other order
ReferenceError_ForwardFirst(groups, i) ==
  IF groups[i].references = NoReference THEN None
  ELSE IF groups[i].references >= i THEN "ForwardOrSelfReference"
  ELSE IF groups[i].references > Len(groups) THEN "NonExistentReference"
  ELSE None

\* the check V2Parser._validate_references makes of the group at index i
\* (1-based here, so current_position = i)
ReferenceError(groups, i) ==
  IF groups[i].references = NoReference THEN None
  ELSE IF groups[i].references > Len(groups) THEN "NonExistentReference"
  ELSE IF groups[i].references >= i THEN "ForwardOrSelfReference"
  ELSE None

\* the exception of the first group (in list order) that fails the check
FirstReferenceError(groups, bad) ==
  Raise("ValueError",
        ReferenceError(groups, CHOOSE i \in bad : \A j \in bad : i <= j))

\* V2Parser._validate_references: the first offending group raises
V2_validate_references(groups) ==
  IF \A i \in 1..Len(groups) : ReferenceError(groups, i) = None
    THEN Ok(None)
    ELSE FirstReferenceError(groups,
           {i \in 1..Len(groups) : ReferenceError(groups, i) # None})

\* V2Parser.parse, lines 27-28: the AST once the references validated as v
V2_build(groups, v) == IF v.ok THEN Ok(TemplateAST(groups, 2)) ELSE v

\* V2Parser.parse, lines 26-28, on the outcome r of _parse_groups
V2_checked(r) ==
  IF r.ok THEN V2_build(r.val, V2_validate_references(r.val)) ELSE r

\* V2Parser.parse
V2Parser_parse(template_str) ==
  V2_checked(V2_parse_groups(Strip(template_str)))

(***************************************************************************)
(* templates/models.py (Token) and templates/api.py (Template): the V1     *)
(* bracket parser.                                                         *)
(***************************************************************************)
\* the value None of a Token feature field (a stored value is never empty)
Unset == <<>>

\* Token(lexical): every feature field starts as None
Token(lexical) ==
  [lexical |-> lexical, case |-> Unset, gender |-> Unset, number |-> Unset,
   tense |-> Unset, voice |-> Unset, person |-> Unset]

\* Token.is_invariable
is_invariable(token) == token.lexical \in {ADVERB, PREPOSITION, CONJUNCTION}

\* Token.features(): the (category, value) items of the fields that are set
Token_features(token) ==
  SelectSeq(<< <<CASE_, token.case>>, <<GENDER, token.gender>>,
               <<NUMBER, token.number>>, <<TENSE, token.tense>>,
               <<VOICE, token.voice>>, <<PERSON, token.person>> >>,
            LAMBDA item : item[2] # Unset)

\* NominalLoop without the "is None" tests: a later token of a category
\* replaces the earlier one
RECURSIVE NominalLoop_Overwrite(_, _)
NominalLoop_Overwrite(token, features) ==
  IF features = <<>> THEN Ok(token)
  ELSE IF Head(features) \in CASE_VALUES
    THEN NominalLoop_Overwrite([token EXCEPT !.case = Head(features)],
                               Tail(features))
  ELSE IF Head(features) \in GENDER_VALUES
    THEN NominalLoop_Overwrite([token EXCEPT !.gender = Head(features)],
                               Tail(features))
  ELSE IF Head(features) \in NUMBER_VALUES
    THEN NominalLoop_Overwrite([token EXCEPT !.number = Head(features)],
                               Tail(features))
  ELSE Raise("TemplateParseError", "InvalidOrDuplicateFeature")

\* the feature loop of Template._parse_nominal_features
RECURSIVE NominalLoop(_, _)
NominalLoop(token, features) ==
  IF features = <<>> THEN Ok(token)
  ELSE IF Head(features) \in CASE_VALUES /\ token.case = Unset
    THEN NominalLoop([token EXCEPT !.case = Head(features)], Tail(features))
  ELSE IF Head(features) \in GENDER_VALUES /\ token.gender = Unset
    THEN NominalLoop([token EXCEPT !.gender = Head(features)], Tail(features))
  ELSE IF Head(features) \in NUMBER_VALUES /\ token.number = Unset
    THEN NominalLoop([token EXCEPT !.number = Head(features)], Tail(features))
  ELSE Raise("TemplateParseError", "InvalidOrDuplicateFeature")

\* Template._parse_*_features, the final check: every required field is set
RequireSet(r, required) ==
  IF ~r.ok THEN r
  ELSE IF \E i \in 1..Len(required) : r.val[required[i]] = Unset
    THEN Raise("TemplateParseError", "MissingRequiredFeature")
  ELSE r

\* parse_nominal_features reading the features by position: case, gender,
\* number
parse_nominal_features_Positional(token, features) ==
  IF Len(features) # 3 THEN Raise("TemplateParseError", "WrongFeatureArity")
  ELSE IF /\ features[1] \in CASE_VALUES
          /\ features[2] \in GENDER_VALUES
          /\ features[3] \in NUMBER_VALUES
    THEN Ok([token EXCEPT !.case = features[1], !.gender = features[2],
                          !.number = features[3]])
  ELSE Raise("TemplateParseError", "InvalidOrDuplicateFeature")

\* Template._parse_nominal_features
parse_nominal_features(token, features) ==
  IF Len(features) # 3 THEN Raise("TemplateParseError", "WrongFeatureArity")
  ELSE RequireSet(NominalLoop(token, features), <<"case", "gender", "number">>)

\* the feature loop of Template._parse_verbal_features
RECURSIVE VerbalLoop(_, _)
VerbalLoop(token, features) ==
  IF features = <<>> THEN Ok(token)
  ELSE IF Head(features) \in TENSE_VALUES /\ token.tense = Unset
    THEN VerbalLoop([token EXCEPT !.tense = Head(features)], Tail(features))
  ELSE IF Head(features) \in VOICE_VALUES /\ token.voice = Unset
    THEN VerbalLoop([token EXCEPT !.voice = Head(features)], Tail(features))
  ELSE IF Head(features) \in PERSON_VALUES /\ token.person = Unset
    THEN VerbalLoop([token EXCEPT !.person = Head(features)], Tail(features))
  ELSE IF Head(features) \in NUMBER_VALUES /\ token.number = Unset
    THEN VerbalLoop([token EXCEPT !.number = Head(features)], Tail(features))
  ELSE Raise("TemplateParseError", "InvalidOrDuplicateFeature")

\* parse_verbal_features with the count checked after the feature loop
parse_verbal_features_ValuesFirst(token, features) ==
  IF ~VerbalLoop(token, features).ok THEN VerbalLoop(token, features)
  ELSE IF Len(features) # 4
    THEN Raise("TemplateParseError", "WrongFeatureArity")
  ELSE RequireSet(VerbalLoop(token, features),
                  <<"tense", "voice", "person", "number">>)

\* Template._parse_verbal_features
parse_verbal_features(token, features) ==
  IF Len(features) # 4 THEN Raise("TemplateParseError", "WrongFeatureArity")
  ELSE RequireSet(VerbalLoop(token, features),
                  <<"tense", "voice", "person", "number">>)

\* the feature loop of Template._parse_pronoun_features
RECURSIVE PronounLoop(_, _)
PronounLoop(token, features) ==
  IF features = <<>> THEN Ok(token)
  ELSE IF Head(features) \in CASE_VALUES /\ token.case = Unset
    THEN PronounLoop([token EXCEPT !.case = Head(features)], Tail(features))
  ELSE IF Head(features) \in PERSON_VALUES /\ token.person = Unset
    THEN PronounLoop([token EXCEPT !.person = Head(features)], Tail(features))
  ELSE IF Head(features) \in NUMBER_VALUES /\ token.number = Unset
    THEN PronounLoop([token EXCEPT !.number = Head(features)], Tail(features))
  ELSE IF Head(features) \in GENDER_VALUES /\ token.gender = Unset
    THEN PronounLoop([token EXCEPT !.gender = Head(features)], Tail(features))
  ELSE Raise("TemplateParseError", "InvalidOrDuplicateFeature")

\* Template._parse_pronoun_features
parse_pronoun_features(token, features) ==
  IF Len(features) < 3 \/ Len(features) > 4
    THEN Raise("TemplateParseError", "WrongFeatureArity")
  ELSE RequireSet(PronounLoop(token, features), <<"case", "person", "number">>)

\* Template._parse_token, lines 72-100, on the stripped parts
parse_parts(lexical, features) ==
  IF lexical \notin LEXICAL_VALUES
    THEN Raise("TemplateParseError", "UnknownLexicalType")
  ELSE IF is_invariable(Token(lexical))
    THEN IF features # <<>>
           THEN Raise("TemplateParseError", "UnexpectedFeatures")
           ELSE Ok(Token(lexical))
  ELSE IF lexical \in {NOUN, ADJECTIVE, ARTICLE}
    THEN parse_nominal_features(Token(lexical), features)
  ELSE IF lexical = VERB THEN parse_verbal_features(Token(lexical), features)
  ELSE IF lexical = PRONOUN
    THEN parse_pronoun_features(Token(lexical), features)
  ELSE Ok(Token(lexical))

\* [p.strip() for p in parts]
StripEach(parts) == [i \in 1..Len(parts) |-> Strip(parts[i])]

\* Template._parse_token, lines 72 and 79: parts[0] and parts[1:]
parse_stripped(parts) == parse_parts(Head(parts), Tail(parts))

\* Template._parse_token
parse_token(token_str) == parse_stripped(StripEach(Split(token_str, ":")))

RECURSIVE FindSpans(_, _)

\* the span from the "[" at p to the first "]" after it, then the later ones
SpanTo(s, p, q) == <<SubSeq(s, p + 1, q - 1)>> \o FindSpans(s, q + 1)

\* the leftmost of the start positions of a span
FirstSpan(s, p) == SpanTo(s, p, FirstIn(s, p + 1, {"]"}))

\* TOKEN_PATTERN.findall given the positions where \[([^\]]+)\] matches
SpansAt(s, starts) ==
  IF starts = {} THEN <<>>
  ELSE FirstSpan(s, CHOOSE p \in starts : \A p2 \in starts : p <= p2)

\* TOKEN_PATTERN.findall: the contents of every \[([^\]]+)\] span
FindSpans(s, from) ==
  SpansAt(s, {p \in from..Len(s) :
                s[p] = "[" /\ FirstIn(s, p + 1, {"]"}) > p + 1})

\* the loop of Template.parse over the matches
RECURSIVE ParseTokens(_)
ParseTokens(matches) ==
  IF matches = <<>> THEN Ok(<<>>)
  ELSE Cons(parse_token(Head(matches)), ParseTokens(Tail(matches)))

\* Template.parse, lines 45-53, on the matches
ParseMatches(matches) ==
  IF matches = <<>> THEN Raise("TemplateParseError", "NoTokensFound")
  ELSE ParseTokens(matches)

\* Template.parse
Template_parse(template) ==
  IF template = <<>> \/ Strip(template) = <<>>
    THEN Raise("TemplateParseError", "EmptyTemplate")
    ELSE ParseMatches(FindSpans(template, 1))

(***************************************************************************)
(* v1_parser.py                                                            *)
(***************************************************************************)
\* V1Parser.parse, lines 22-30: the Feature objects of the token's items
FeaturesOf(items) ==
  [k \in 1..Len(items) |-> get_category(items[k][2]).val]

\* GroupsOf with reference_id = i of enumerate, which counts from 0
GroupsOf_ZeroBased(tokens) ==
  [i \in 1..Len(tokens) |->
     Group(<<POSToken(tokens[i].lexical, <<>>)>>,
           FeaturesOf(Token_features(tokens[i])), i - 1, NoReference)]

\* V1Parser.parse, lines 19-41: one single-token group per parsed token
GroupsOf(tokens) ==
  [i \in 1..Len(tokens) |->
     Group(<<POSToken(tokens[i].lexical, <<>>)>>,
           FeaturesOf(Token_features(tokens[i])), i, NoReference)]

\* V1Parser.parse, given what Template.parse returned or raised
ToAST(parsed) ==
  IF ~parsed.ok THEN parsed ELSE Ok(TemplateAST(GroupsOf(parsed.val), 1))

\* V1Parser.parse
V1Parser_parse(template_str) == ToAST(Template_parse(template_str))

(***************************************************************************)
(* syntaxis.py: feature resolution and merging.                            *)
(***************************************************************************)
\* a Python dict keyed by category, kept as its values in insertion order:
\* d[f.category] = f replaces in place or appends
DictSet(d, f) ==
  IF \E i \in 1..Len(d) : d[i].category = f.category
    THEN [i \in 1..Len(d) |-> IF d[i].category = f.category THEN f ELSE d[i]]
    ELSE Append(d, f)

\* {f.category: f for f in features}
RECURSIVE DictFrom(_)
DictFrom(features) ==
  IF features = <<>> THEN <<>>
  ELSE DictSet(DictFrom(SubSeq(features, 1, Len(features) - 1)),
               features[Len(features)])

\* the override loop of Syntaxis._merge_features; m = [merged, warnings]
RECURSIVE MergeLoop(_, _, _)
MergeLoop(m, override_features, warn_on_override) ==
  IF override_features = <<>> THEN m
  ELSE
    LET feature == Head(override_features)
        hit == {i \in 1..Len(m.merged) : m.merged[i].category = feature.category}
        old_feature == m.merged[CHOOSE i \in hit : TRUE]
        warned == IF warn_on_override /\ hit # {}
                    THEN Append(m.warnings,
                                [category |-> feature.category,
                                 old |-> old_feature.name,
                                 new |-> feature.name])
                    ELSE m.warnings
    IN MergeLoop([merged |-> DictSet(m.merged, feature), warnings |-> warned],
                 Tail(override_features), warn_on_override)

\* merge_features with the base winning: an override of a category the base
\* already has is dropped
merge_features_BaseWins(base_features, override_features, warn_on_override) ==
  LET kept == SelectSeq(override_features,
                        LAMBDA f : \A i \in 1..Len(base_features) :
                                     base_features[i].category # f.category)
  IN MergeLoop([merged |-> DictFrom(base_features), warnings |-> <<>>],
               kept, warn_on_override)

\* Syntaxis._merge_features: the merged list and the warnings it logs
merge_features(base_features, override_features, warn_on_override) ==
  MergeLoop([merged |-> DictFrom(base_features), warnings |-> <<>>],
            override_features, warn_on_override)

\* Python list indexing all_groups[k]: a negative k counts from the end
PyIndex(list, k) ==
  IF 0 <= k /\ k < Len(list) THEN Ok(list[k + 1])
  ELSE IF k < 0 /\ -k <= Len(list) THEN Ok(list[Len(list) + k + 1])
  ELSE Raise("IndexError", "IndexError")

\* resolve_features that lets the direct features of a group's first token
\* count as features of the group
RECURSIVE resolve_features_WithDirect(_, _, _)
resolve_features_WithDirect(group, all_groups, depth) ==
  IF group.references = NoReference
    THEN IF group.tokens = <<>> THEN Ok(group.group_features)
         ELSE Ok(merge_features(group.group_features,
                                group.tokens[1].direct_features, FALSE).merged)
  ELSE IF depth > Len(all_groups)
    THEN Raise("RecursionError", "RecursionError")
  ELSE
    LET referenced_group == PyIndex(all_groups, group.references - 1)
        features == resolve_features_WithDirect(referenced_group.val,
                                                all_groups, depth + 1)
    IN IF ~referenced_group.ok THEN referenced_group
       ELSE IF ~features.ok THEN features
       ELSE Ok(merge_features(features.val, group.group_features,
                              FALSE).merged)

\* Syntaxis._resolve_group_features.  A chain that has followed more than
\* len(all_groups) references has revisited a group and never ends: the
\* interpreter stops it with RecursionError.
RECURSIVE resolve_features(_, _, _)
resolve_features(group, all_groups, depth) ==
  IF group.references = NoReference THEN Ok(group.group_features)
  ELSE IF depth > Len(all_groups)
    THEN Raise("RecursionError", "RecursionError")
  ELSE
    LET referenced_group == PyIndex(all_groups, group.references - 1)
        features == resolve_features(referenced_group.val, all_groups,
                                     depth + 1)
    IN IF ~referenced_group.ok THEN referenced_group
       ELSE IF ~features.ok THEN features
       ELSE Ok(merge_features(features.val, group.group_features,
                              FALSE).merged)

resolve_group_features(group, all_groups) ==
  resolve_features(group, all_groups, 0)

\* {f.category: f.name for f in final_features}
feature_dict(final_features) ==
  LET cats == {final_features[i].category : i \in 1..Len(final_features)}
      last(c) == CHOOSE i \in 1..Len(final_features) :
                   /\ final_features[i].category = c
                   /\ \A j \in (i + 1)..Len(final_features) :
                        final_features[j].category # c
  IN [c \in cats |-> final_features[last(c)].name]

(***************************************************************************)
(* database/api.py: what the engine observes of Database.get_random_word.  *)
(***************************************************************************)
\* the checks get_random_word makes before it queries the table
get_random_word_check(lexical, features) ==
  IF DOMAIN features \ VALID_CASE_FEATURES(lexical) # {}
    THEN Raise("ValueError", "InvalidFeatures")
  ELSE IF lexical \notin LEXICAL_TO_TABLE_MAP
    THEN Raise("KeyError", "KeyError")
  ELSE Ok(None)

(***************************************************************************)
(* The templates generate_sentence is called with.                         *)
(***************************************************************************)
SP == <<" ">>

\* "(" tokens ")@" spec
GroupText(tokens, spec) == <<"(">> \o tokens \o <<")", "@">> \o spec

Braced(text) == <<"{">> \o text \o <<"}">>

Colon(a, b) == a \o <<":">> \o b

NomMascSg == Colon(NOMINATIVE, Colon(MASCULINE, SINGULAR))

\* the group texts the grouping templates are assembled from
GroupTexts ==
  { GroupText(ARTICLE, Braced(NomMascSg)),
    GroupText(ARTICLE \o SP \o NOUN \o Braced(FEMININE), Braced(NomMascSg)),
    GroupText(NOUN \o Braced(Colon(MASCULINE, FEMININE)), Braced(NOMINATIVE)),
    GroupText(VERB, Braced(Colon(NOMINATIVE, ACCUSATIVE))),
    GroupText(NOUN, <<"$", "0">>),
    GroupText(NOUN, <<"$", "1">>),
    GroupText(ADJECTIVE \o Braced(ACCUSATIVE), <<"$", "2">>),
    GroupText(NOUN, <<"$", "3">>) }

RECURSIVE JoinWith(_, _)
JoinWith(texts, sep) ==
  IF Len(texts) = 0 THEN <<>>
  ELSE IF Len(texts) = 1 THEN texts[1]
  ELSE texts[1] \o sep \o JoinWith(Tail(texts), sep)

\* grouping templates of 1..MaxGroups groups separated by one blank
GroupingTemplates ==
  {JoinWith(gs, SP) : gs \in UNION {[1..n -> GroupTexts] : n \in 1..MaxGroups}}

V1Span(text) == <<"[">> \o text \o <<"]">>

\* the wildcard tokens as the integration tests write them: gender*, number*
GenderStar == GENDER \o <<"*">>

NumberStar == NUMBER \o <<"*">>

\* further templates: empty and padded input, other lead characters, bracket
\* templates, malformed grouping templates, lookups the lexicon rejects
OtherTemplates ==
  { <<>>,
    SP \o SP,
    Colon(NOUN, NomMascSg),
    SP \o Colon(NOUN, NomMascSg),
    SP \o GroupText(NOUN, Braced(NomMascSg)) \o SP,
    <<"\t">> \o V1Span(Colon(NOUN, NomMascSg)) \o <<"\n">>,
    V1Span(Colon(ARTICLE, NomMascSg)) \o SP \o V1Span(Colon(NOUN, NomMascSg)),
    V1Span(ADVERB) \o SP
      \o V1Span(Colon(VERB, Colon(PRESENT, Colon(ACTIVE, Colon(THIRD, SINGULAR))))),
    V1Span(Colon(NOUN, Colon(SINGULAR, Colon(NOMINATIVE, MASCULINE)))),
    V1Span(Colon(NOUN, Colon(NOMINATIVE, MASCULINE))),
    V1Span(Colon(ADVERB, NomMascSg)),
    V1Span(Colon(<<"a", "d", "j">>, NomMascSg)),
    V1Span(Colon(NOUN, Colon(NOMINATIVE, Colon(NOMINATIVE, SINGULAR)))),
    V1Span(NUMERAL),
    <<"[">> \o NOUN,
    <<"(">> \o NOUN,
    <<"(">> \o NOUN \o <<")", "@", "{">> \o NOMINATIVE,
    GroupText(<<>>, Braced(NOMINATIVE)),
    GroupText(NOUN, Braced(<<"x", "x">>)),
    GroupText(NOUN, Braced(<<"g">>)),
    GroupText(NOUN \o Braced(<<"x", "x">>), <<"$", "5">>),
    <<"(">> \o NOUN \o <<")">>,
    GroupText(<<"a", "d", "j">>, Braced(NOMINATIVE)),
    GroupText(NOUN, Braced(PRESENT)),
    GroupText(NUMERAL, <<"$", "0">>),
    GroupText(<<":">>, Braced(NOMINATIVE)) \o SP \o GroupText(NOUN, <<"$", "1">>),
    GroupText(NOUN \o SP \o ADVERB, Braced(NOMINATIVE)),
    GroupText(ARTICLE \o SP \o <<"a", "d", "j">> \o SP \o NOUN,
              Braced(NomMascSg)),
    GroupText(<<"x", "x">>, Braced(NOMINATIVE)),
    GroupText(ADVERB, Braced(NOMINATIVE)) \o SP \o GroupText(ADVERB \o SP \o NOUN, <<"$", "0">>),
    GroupText(NOUN, Braced(Colon(NOMINATIVE, Colon(GenderStar, SINGULAR)))),
    GroupText(NOUN, Braced(Colon(NOMINATIVE, Colon(MASCULINE, NumberStar)))),
    GroupText(NOUN, Braced(Colon(NOMINATIVE, Colon(GENDER_WILDCARD, SINGULAR)))) }

Templates == GroupingTemplates \cup OtherTemplates

(***************************************************************************)
(* State of one generate_sentence call.                                    *)
(***************************************************************************)
VARIABLES
  input,      \* the template argument as passed by the caller
  template,   \* the local template after template.strip()
  pc,         \* "idle", "parse", "validate", "groups", "tokens", "done",
              \* "failed"
  parser,     \* the parser the dispatch selected: "none", "v1" or "v2"
  groups,     \* V2Parser.parse: the groups _parse_groups returned
  ast,        \* the TemplateAST the parser returned
  gi,         \* 1-based position of the outer loop in ast.groups
  ti,         \* 1-based position of the inner loop in group.tokens
  resolved,   \* resolved_group_features of the current group
  lexicals,   \* the list lexicals built so far
  lookups,    \* the get_random_word calls issued so far, in order
  warnings,   \* the override warnings logged so far, in order
  error,      \* the exception that ended the call
  result,     \* the list generate_sentence returned
  call,       \* a direct call of a mapper or of a parser: the operation,
              \* its argument, whether it returned, what it returned or
              \* raised
  history,    \* the generate_sentence calls that ended before the current
              \* one on the same engine, in order
  frames,     \* the locals of the generate_sentence calls of the callers
              \* that are not running
  running     \* the caller whose call the other variables hold

vars ==
  <<input, template, pc, parser, groups, ast, gi, ti, resolved, lexicals,
    lookups, warnings, error, result, call, history, frames, running>>

\* no direct call is made
NoCall == [op |-> "none", arg |-> <<>>, returned |-> FALSE, ret |-> Ok(None)]

NoAST == TemplateAST(<<>>, 0)

NoError == Error("None", "None", <<>>, <<>>)

\* no generate_sentence call has been made
NoSentence ==
  /\ input = <<>>
  /\ template = <<>>
  /\ pc = "idle"
  /\ parser = "none"
  /\ groups = <<>>
  /\ ast = NoAST
  /\ gi = 0
  /\ ti = 0
  /\ resolved = <<>>
  /\ lexicals = <<>>
  /\ lookups = <<>>
  /\ warnings = <<>>
  /\ error = NoError
  /\ result = <<>>

\* the locals of a generate_sentence call that has not begun
IdleFrame ==
  [input |-> <<>>, template |-> <<>>, pc |-> "idle", parser |-> "none",
   groups |-> <<>>, ast |-> NoAST, gi |-> 0, ti |-> 0, resolved |-> <<>>,
   lexicals |-> <<>>, lookups |-> <<>>, warnings |-> <<>>, error |-> NoError,
   result |-> <<>>]

\* one caller, no call ended so far
NoSession ==
  /\ history = <<>>
  /\ frames = [c \in 1..MaxCallers |-> IdleFrame]
  /\ running = 1

Init ==
  /\ NoSentence
  /\ call = NoCall
  /\ NoSession

\* an exception leaves generate_sentence
Fail(err) ==
  /\ pc' = "failed"
  /\ error' = err

\* DetectVersion without the final raise: whatever is not a bracket template
\* goes to the grouping parser
DetectVersion_NoElse(stripped) ==
  IF stripped = <<>> THEN Raise("ValueError", "EmptyTemplate")
  ELSE IF Head(stripped) = "[" THEN Ok("v1")
  ELSE Ok("v2")

\* generate_sentence, lines 136-149, on the trimmed template: the parser to
\* call, or the error raised
DetectVersion(stripped) ==
  IF stripped = <<>> THEN Raise("ValueError", "EmptyTemplate")
  ELSE IF Head(stripped) = "[" THEN Ok("v1")
  ELSE IF Head(stripped) = "(" THEN Ok("v2")
  ELSE Raise("ValueError", "InvalidTemplateLeadCharacter")

\* generate_sentence, lines 133-149: trim and select the parser
Dispatch(t) ==
  /\ pc = "idle"
  /\ input' = t
  /\ template' = Strip(t)
  /\ LET version == DetectVersion(Strip(t))
     IN IF version.ok
          THEN /\ parser' = version.val
               /\ pc' = "parse"
               /\ UNCHANGED error
          ELSE /\ Fail(version.err)
               /\ UNCHANGED parser
  /\ UNCHANGED <<call, history, frames, running, groups, ast, gi, ti, resolved, lexicals, lookups,
                 warnings, result>>

\* generate_sentence, line 141: V1Parser.parse returns the AST or raises
ParseV1 ==
  /\ pc = "parse"
  /\ parser = "v1"
  /\ LET r == V1Parser_parse(template)
     IN IF r.ok
          THEN /\ ast' = r.val
               /\ pc' = "groups"
               /\ gi' = 1
               /\ UNCHANGED error
          ELSE /\ Fail(r.err)
               /\ UNCHANGED <<ast, gi>>
  /\ UNCHANGED <<call, history, frames, running, input, template, parser, groups, ti, resolved, lexicals,
                 lookups, warnings, result>>

\* generate_sentence, line 144, V2Parser.parse, lines 25-26: extract groups
ParseV2 ==
  /\ pc = "parse"
  /\ parser = "v2"
  /\ LET r == V2_parse_groups(Strip(template))
     IN IF r.ok
          THEN /\ groups' = r.val
               /\ pc' = "validate"
               /\ UNCHANGED error
          ELSE /\ Fail(r.err)
               /\ UNCHANGED groups
  /\ UNCHANGED <<call, history, frames, running, input, template, parser, ast, gi, ti, resolved, lexicals,
                 lookups, warnings, result>>

\* V2Parser.parse without the call of _validate_references
ValidateReferences_Skipped ==
  /\ pc = "validate"
  /\ ast' = TemplateAST(groups, 2)
  /\ pc' = "groups"
  /\ gi' = 1
  /\ UNCHANGED <<call, history, frames, running, input, template, parser, groups, ti, resolved, lexicals,
                 lookups, warnings, error, result>>

\* V2Parser.parse, lines 27-28: validate the references, build the AST
ValidateReferences ==
  /\ pc = "validate"
  /\ LET v == V2_validate_references(groups)
     IN IF v.ok
          THEN /\ ast' = TemplateAST(groups, 2)
               /\ pc' = "groups"
               /\ gi' = 1
               /\ UNCHANGED error
          ELSE /\ Fail(v.err)
               /\ UNCHANGED <<ast, gi>>
  /\ UNCHANGED <<call, history, frames, running, input, template, parser, groups, ti, resolved, lexicals,
                 lookups, warnings, result>>

\* EnterGroup that stores the resolved features in the group it resolved
EnterGroup_StoresResolved ==
  /\ pc = "groups"
  /\ gi <= Len(ast.groups)
  /\ LET group == ast.groups[gi]
         r == resolve_group_features(group, ast.groups)
     IN IF ~r.ok
          THEN /\ Fail(r.err)
               /\ UNCHANGED <<resolved, gi, ti, ast>>
        ELSE IF group.tokens = <<>>
          THEN /\ resolved' = r.val
               /\ ast' = [ast EXCEPT !.groups[gi].group_features = r.val]
               /\ gi' = gi + 1
               /\ UNCHANGED <<pc, ti, error>>
        ELSE /\ resolved' = r.val
             /\ ast' = [ast EXCEPT !.groups[gi].group_features = r.val]
             /\ pc' = "tokens"
             /\ ti' = 1
             /\ UNCHANGED <<gi, error>>
  /\ UNCHANGED <<call, history, frames, running, input, template, parser,
                 groups, lexicals, lookups, warnings, result>>

\* _generate_from_ast, lines 169-171: next group, resolve its features
EnterGroup ==
  /\ pc = "groups"
  /\ gi <= Len(ast.groups)
  /\ LET group == ast.groups[gi]
         r == resolve_group_features(group, ast.groups)
     IN IF ~r.ok
          THEN /\ Fail(r.err)
               /\ UNCHANGED <<resolved, gi, ti>>
        ELSE IF group.tokens = <<>>
          THEN /\ resolved' = r.val
               /\ gi' = gi + 1
               /\ UNCHANGED <<pc, ti, error>>
        ELSE /\ resolved' = r.val
             /\ pc' = "tokens"
             /\ ti' = 1
             /\ UNCHANGED <<gi, error>>
  /\ UNCHANGED <<call, history, frames, running, input, template, parser, groups, ast, lexicals, lookups,
                 warnings, result>>

\* the word inserted at the front instead of appended
AppendLexical_Front(list, lexical) == <<lexical>> \o list

\* _generate_from_ast, line 200: lexicals.append(lexical)
AppendLexical(list, lexical) == Append(list, lexical)

\* _generate_from_ast, lines 190-195: the exception raised when no row matched
NoMatchingWord(lexical, names) ==
  Error("ValueError", "NoMatchingWord", lexical, names)

\* no row matched and the words found so far are returned
OnNoMatch_ReturnsPartial(lexical, names) ==
  /\ result' = lexicals
  /\ pc' = "done"
  /\ UNCHANGED <<lexicals, gi, ti, error>>

\* _generate_from_ast, lines 189-195: no row matched, raise
OnNoMatch(lexical, names) ==
  /\ Fail(NoMatchingWord(lexical, names))
  /\ UNCHANGED <<lexicals, gi, ti, result>>

\* _generate_from_ast, lines 174-200: merge, look the token up, append.
\* found: whether the table holds a matching row.
Lookup(found) ==
  /\ pc = "tokens"
  /\ LET group == ast.groups[gi]
         token == group.tokens[ti]
         m == merge_features(resolved, token.direct_features, TRUE)
         final_features == m.merged
         fd == feature_dict(final_features)
         check == get_random_word_check(token.lexical, fd)
         outcome == IF ~check.ok THEN "raised"
                    ELSE IF found THEN "word" ELSE "none"
         lexical == [lexical |-> token.lexical, features |-> fd,
                     id |-> Len(lookups) + 1]
         names == [i \in 1..Len(final_features) |-> final_features[i].name]
     IN /\ warnings' = warnings \o
             [i \in 1..Len(m.warnings) |->
                [category |-> m.warnings[i].category, old |-> m.warnings[i].old,
                 new |-> m.warnings[i].new, context |-> token.lexical,
                 group |-> gi, token |-> ti]]
        /\ lookups' = Append(lookups,
             [lexical |-> token.lexical, features |-> fd, group |-> gi,
              token |-> ti, outcome |-> outcome])
        /\ IF outcome = "raised"
             THEN /\ Fail(check.err)
                  /\ UNCHANGED <<lexicals, gi, ti, result>>
           ELSE IF outcome = "none"
             THEN OnNoMatch(token.lexical, names)
           ELSE /\ lexicals' = AppendLexical(lexicals, lexical)
                /\ IF ti < Len(group.tokens)
                     THEN /\ ti' = ti + 1
                          /\ UNCHANGED <<pc, gi>>
                     ELSE /\ pc' = "groups"
                          /\ gi' = gi + 1
                          /\ UNCHANGED ti
                /\ UNCHANGED <<error, result>>
  /\ UNCHANGED <<call, history, frames, running, input, template, parser, groups, ast, resolved>>

\* _generate_from_ast, line 202, and generate_sentence, line 155
Return ==
  /\ pc = "groups"
  /\ gi > Len(ast.groups)
  /\ result' = lexicals
  /\ pc' = "done"
  /\ UNCHANGED <<call, history, frames, running, input, template, parser, groups, ast, gi, ti, resolved,
                 lexicals, lookups, warnings, error>>

Next ==
  \/ \E t \in Templates : Dispatch(t)
  \/ ParseV1
  \/ ParseV2
  \/ ValidateReferences
  \/ EnterGroup
  \/ \E found \in BOOLEAN : Lookup(found)
  \/ Return

Spec == Init /\ [][Next]_vars

(***************************************************************************)
(* Direct calls of the mappers and of the bracket parser: the argument is  *)
(* fixed when the call is made, the call then returns or raises.           *)
(***************************************************************************)
\* most feature segments of a generated bracket span
MaxFeatures == 5

\* most spans of a generated bracket template
MaxSpans == 3

\* every prefix of a name of the set, the empty one and the name included
Prefixes(names) ==
  UNION {{SubSeq(name, 1, n) : n \in 0..Len(name)} : name \in names}

FeatureKeys == {FEATURE_CATEGORIES[i][1] : i \in 1..Len(FEATURE_CATEGORIES)}

\* the feature tokens get_category is called with: every key of the table,
\* every abbreviation of a key, the mood values and tokens of no key
FeatureNames ==
  Prefixes(FeatureKeys) \cup MOOD_VALUES
    \cup {<<"x", "x">>, NOMINATIVE \o <<"x">>, GENDER \o <<"*">>}

\* the word-class tokens get_lexical is called with
LexicalNames ==
  Prefixes(LEXICAL_VALUES) \cup {<<"x">>, NOUN \o <<"s">>, <<"a", "d", "x">>}

\* "[" lexical ":" f1 ":" ... ":" fn "]"
SpanOf(lexical, features) == V1Span(JoinWith(<<lexical>> \o features, <<":">>))

\* the lists of at most MaxFeatures feature tokens of an alphabet
FeatureLists(alphabet) ==
  UNION {[1..n -> alphabet] : n \in 0..MaxFeatures}

PRES == <<"p", "r", "e", "s">>

\* the feature tokens the generated spans of a lexical type are written
\* with: some of them of no or of another category
SpanAlphabet(lexical) ==
  IF lexical \in {NOUN, ADJECTIVE, ARTICLE}
    THEN <<NOMINATIVE, ACCUSATIVE, MASCULINE, SINGULAR, <<"x", "x">> >>
  ELSE IF lexical = VERB THEN <<PRESENT, ACTIVE, THIRD, SINGULAR, PRES>>
  ELSE IF lexical = PRONOUN
    THEN <<ACCUSATIVE, THIRD, PLURAL, FEMININE, PRESENT>>
  ELSE <<NOMINATIVE, <<"x", "x">> >>

\* the tokens of the alphabet at the positions of the list
Pick(alphabet, positions) ==
  [i \in 1..Len(positions) |-> alphabet[positions[i]]]

\* single spans of every lexical type, with feature tokens in every order,
\* number and repetition
GeneratedSpans ==
  {SpanOf(l, Pick(SpanAlphabet(l), ps)) :
     l \in {NOUN, ADJECTIVE, ARTICLE, VERB, PRONOUN},
     ps \in FeatureLists(DOMAIN SpanAlphabet(NOUN))}
  \cup {SpanOf(l, Pick(SpanAlphabet(l), ps)) :
          l \in {ADVERB, PREPOSITION, CONJUNCTION, NUMERAL},
          ps \in FeatureLists(DOMAIN SpanAlphabet(ADVERB))}

\* the spans the bracket templates of several spans are assembled from
SpanTexts ==
  { SpanOf(NOUN, <<NOMINATIVE, MASCULINE, SINGULAR>>),
    SpanOf(ARTICLE, <<SINGULAR, GENITIVE, NEUTER>>),
    SpanOf(VERB, <<PRESENT, ACTIVE, THIRD, SINGULAR>>),
    SpanOf(ADVERB, <<>>),
    SpanOf(NOUN, <<NOMINATIVE, MASCULINE>>) }

\* bracket templates of 1..MaxSpans spans separated by one blank
SpanSequences ==
  {JoinWith(ss, SP) : ss \in UNION {[1..n -> SpanTexts] : n \in 1..MaxSpans}}

\* further bracket templates: abbreviated lexical types and features, text
\* around the spans, blanks inside a span, an empty and a nested span
OtherBrackets ==
  { SpanOf(<<"a", "d", "j">>, <<NOMINATIVE, MASCULINE, SINGULAR>>),
    SpanOf(<<"p", "r", "e", "p">>, <<>>),
    SpanOf(<<"a", "d", "v">>, <<>>),
    SpanOf(<<"c", "o", "n", "j">>, <<>>),
    SpanOf(<<"a", "d", "v">>, <<NOMINATIVE, MASCULINE, SINGULAR>>),
    SpanOf(<<"a", "d">>, <<>>),
    SpanOf(<<"x">>, <<>>),
    SpanOf(VERB, <<PRES, ACTIVE, THIRD, SINGULAR>>),
    SpanOf(NOUN, <<<<"n", "o">>, MASCULINE, SINGULAR>>),
    SpanOf(PREPOSITION, <<>>) \o SpanOf(CONJUNCTION, <<>>),
    <<"x", " ">> \o SpanOf(ADVERB, <<>>) \o <<" ", "]">>,
    SpanOf(SP \o NOUN \o SP, <<SP \o NOMINATIVE, MASCULINE \o SP, SINGULAR>>),
    <<"[", "]">>,
    <<"[">> \o SpanOf(ADVERB, <<>>) \o <<"]">>,
    <<>>,
    SP,
    NOUN }

BracketTemplates == GeneratedSpans \cup SpanSequences \cup OtherBrackets

\* a call that has been made and has not returned
\* pieces of grouping templates: well-formed groups, groups the parser
\* rejects, text that is not a group
GroupPieces ==
  { GroupText(NOUN, Braced(NOMINATIVE)),
    GroupText(ADJECTIVE \o Braced(FEMININE), <<"$", "1">>),
    GroupText(NOUN, <<"$", "3">>),
    GroupText(NOUN, Braced(<<"x", "x">>)),
    GroupText(NOUN, <<"$", "-", "1">>),
    GroupText(<<>>, Braced(NOMINATIVE)),
    <<"(">> \o NOUN \o <<")">>,
    <<"(", "(">> \o ARTICLE \o <<")", ")", "@">>
      \o Braced(Colon(NOMINATIVE, SINGULAR)),
    <<"(">>,
    <<"}">> }

\* further grouping templates: repeated categories, commas, blanks
OtherGroupings ==
  { GroupText(NOUN, Braced(Colon(NOMINATIVE, ACCUSATIVE))),
    GroupText(NOUN \o Braced(Colon(MASCULINE, FEMININE)), Braced(NOMINATIVE)),
    GroupText(NOUN \o Braced(Colon(MASCULINE, MASCULINE)), Braced(NomMascSg)),
    GroupText(NOUN, Braced(NomMascSg)),
    GroupText(NOUN, Braced(NOMINATIVE \o <<",">> \o MASCULINE \o <<",">>
                             \o SINGULAR)),
    GroupText(NOUN, Braced(NOMINATIVE \o <<",", " ">> \o MASCULINE)),
    GroupText(ARTICLE \o SP \o NOUN, Braced(<<" ">> \o NOMINATIVE
                                               \o <<" ", ":", ":">> \o SINGULAR)),
    GroupText(SP, Braced(NOMINATIVE)),
    GroupText(ARTICLE, Braced(Colon(NOMINATIVE, SINGULAR))) \o SP
      \o GroupText(NOUN, <<"$", "-", "1">>) }

\* the templates V2Parser.parse is called with
GroupingCalls ==
  {JoinWith(ps, SP) : ps \in UNION {[1..n -> GroupPieces] : n \in 1..MaxGroups}}
  \cup OtherGroupings

Called(op, arg) == [op |-> op, arg |-> arg, returned |-> FALSE, ret |-> Ok(None)]

\* the calls of the operation op with an argument of the set
Calls(op, args) == {Called(op, arg) : arg \in args}

CallInit ==
  /\ NoSentence
  /\ \/ call \in Calls("FeatureMapper.get_category", FeatureNames)
     \/ call \in Calls("LexicalMapper.get_lexical", LexicalNames)
     \/ call \in Calls("V1Parser.parse", BracketTemplates)
     \/ call \in Calls("V2Parser.parse", GroupingCalls)
  /\ NoSession

\* the call returns ret or raises the exception of ret
Returns(ret) ==
  /\ ~call.returned
  /\ call' = [call EXCEPT !.returned = TRUE, !.ret = ret]
  /\ UNCHANGED <<history, frames, running, input, template, pc, parser, groups, ast, gi, ti, resolved,
                 lexicals, lookups, warnings, error, result>>

\* FeatureMapper.get_category(feature_name)
ResolveFeature ==
  /\ call.op = "FeatureMapper.get_category"
  /\ Returns(get_category(call.arg))

\* LexicalMapper.get_lexical(lexical_name)
ResolveLexical ==
  /\ call.op = "LexicalMapper.get_lexical"
  /\ Returns(get_lexical(call.arg))

\* V1Parser.parse(template_str)
ParseBracket ==
  /\ call.op = "V1Parser.parse"
  /\ Returns(V1Parser_parse(call.arg))

\* V2Parser.parse(template_str)
ParseGrouping ==
  /\ call.op = "V2Parser.parse"
  /\ Returns(V2Parser_parse(call.arg))

CallNext == ResolveFeature \/ ResolveLexical \/ ParseBracket \/ ParseGrouping

CallSpec == CallInit /\ [][CallNext]_vars

(***************************************************************************)
(* Calls made in turn on one engine.  A Syntaxis instance holds a Database *)
(* and a Template parser (Syntaxis.__init__) and generate_sentence writes  *)
(* neither; everything else a call works on is local to it.                *)
(***************************************************************************)
\* the templates of the calls made in turn
SessionTemplates ==
  { GroupText(NOUN \o Braced(FEMININE), Braced(NomMascSg))
      \o SP \o GroupText(ADJECTIVE \o Braced(ACCUSATIVE), <<"$", "1">>),
    GroupText(NOUN, Braced(NomMascSg)),
    V1Span(Colon(ARTICLE, NomMascSg)),
    GroupText(NOUN, <<"$", "1">>) }

\* what a caller keeps of a call that ended
Ended == [input |-> input, pc |-> pc, lookups |-> lookups]

\* the call ends and the next call finds the locals of the call before it
Leave_KeepsFrame ==
  /\ pc \in {"done", "failed"}
  /\ Len(history) < MaxCalls - 1
  /\ history' = Append(history, Ended)
  /\ pc' = "idle"
  /\ UNCHANGED <<input, template, parser, groups, ast, gi, ti, resolved,
                 lexicals, lookups, warnings, error, result, call, frames,
                 running>>

\* generate_sentence, line 155 or a raise: the call ends, its locals are
\* dropped, and the engine is ready for the next call
Leave ==
  /\ pc \in {"done", "failed"}
  /\ Len(history) < MaxCalls - 1
  /\ history' = Append(history, Ended)
  /\ input' = IdleFrame.input
  /\ template' = IdleFrame.template
  /\ pc' = IdleFrame.pc
  /\ parser' = IdleFrame.parser
  /\ groups' = IdleFrame.groups
  /\ ast' = IdleFrame.ast
  /\ gi' = IdleFrame.gi
  /\ ti' = IdleFrame.ti
  /\ resolved' = IdleFrame.resolved
  /\ lexicals' = IdleFrame.lexicals
  /\ lookups' = IdleFrame.lookups
  /\ warnings' = IdleFrame.warnings
  /\ error' = IdleFrame.error
  /\ result' = IdleFrame.result
  /\ UNCHANGED <<call, frames, running>>

SessionNext ==
  \/ \E t \in SessionTemplates : Dispatch(t)
  \/ ParseV1
  \/ ParseV2
  \/ ValidateReferences
  \/ EnterGroup
  \/ \E found \in BOOLEAN : Lookup(found)
  \/ Return
  \/ Leave

SessionSpec == Init /\ [][SessionNext]_vars

(***************************************************************************)
(* Calls of several callers interleaved on one engine                      *)
(* (service/dependencies.py, get_syntaxis: one cached Syntaxis instance    *)
(* serves every request).  The variables input .. result hold the locals   *)
(* of the running caller's call; frames holds those of the others.         *)
(***************************************************************************)
\* the templates of the interleaved calls
ConcurrentTemplates ==
  { GroupText(ARTICLE \o SP \o NOUN \o Braced(FEMININE), Braced(NomMascSg))
      \o SP \o GroupText(ADJECTIVE \o Braced(ACCUSATIVE), <<"$", "1">>),
    V1Span(Colon(NOUN, Colon(GENITIVE, Colon(NEUTER, SINGULAR)))),
    GroupText(NOUN, <<"$", "1">>) }

\* the locals of the running caller's call
CurrentFrame ==
  [input |-> input, template |-> template, pc |-> pc, parser |-> parser,
   groups |-> groups, ast |-> ast, gi |-> gi, ti |-> ti,
   resolved |-> resolved, lexicals |-> lexicals, lookups |-> lookups,
   warnings |-> warnings, error |-> error, result |-> result]

\* the resolved group features live on the engine instead of in the call:
\* the caller that resumes finds what the last caller left there
Switch_SharesResolved(c) ==
  /\ c # running
  /\ frames' = [frames EXCEPT ![running] = CurrentFrame, ![c] = IdleFrame]
  /\ running' = c
  /\ input' = frames[c].input
  /\ template' = frames[c].template
  /\ pc' = frames[c].pc
  /\ parser' = frames[c].parser
  /\ groups' = frames[c].groups
  /\ ast' = frames[c].ast
  /\ gi' = frames[c].gi
  /\ ti' = frames[c].ti
  /\ lexicals' = frames[c].lexicals
  /\ lookups' = frames[c].lookups
  /\ warnings' = frames[c].warnings
  /\ error' = frames[c].error
  /\ result' = frames[c].result
  /\ UNCHANGED <<resolved, call, history>>

\* the running caller is suspended between two steps of its call and caller
\* c goes on with its own call: each call has its own template, ast,
\* lexicals, resolved_group_features (syntaxis.py 133-202, all locals)
Switch(c) ==
  /\ c # running
  /\ frames' = [frames EXCEPT ![running] = CurrentFrame, ![c] = IdleFrame]
  /\ running' = c
  /\ input' = frames[c].input
  /\ template' = frames[c].template
  /\ pc' = frames[c].pc
  /\ parser' = frames[c].parser
  /\ groups' = frames[c].groups
  /\ ast' = frames[c].ast
  /\ gi' = frames[c].gi
  /\ ti' = frames[c].ti
  /\ resolved' = frames[c].resolved
  /\ lexicals' = frames[c].lexicals
  /\ lookups' = frames[c].lookups
  /\ warnings' = frames[c].warnings
  /\ error' = frames[c].error
  /\ result' = frames[c].result
  /\ UNCHANGED <<call, history>>

ConcurrentNext ==
  \/ \E t \in ConcurrentTemplates : Dispatch(t)
  \/ ParseV1
  \/ ParseV2
  \/ ValidateReferences
  \/ EnterGroup
  \/ \E found \in BOOLEAN : Lookup(found)
  \/ Return
  \/ \E c \in 1..MaxCallers : Switch(c)

ConcurrentSpec == Init /\ [][ConcurrentNext]_vars

(***************************************************************************)
(* Vocabulary of the properties.                                           *)
(***************************************************************************)
\* a grouping template was accepted by V2Parser.parse
AcceptedV2 == parser = "v2" /\ ast.version = 2

\* the categories of a feature list
Categories(features) == {features[i].category : i \in 1..Len(features)}

\* the name a feature list gives a category: that of its last such feature
NameIn(features, c) ==
  LET last == CHOOSE i \in 1..Len(features) :
                /\ features[i].category = c
                /\ \A j \in 1..Len(features) :
                     features[j].category = c => j <= i
  IN features[last].name

\* the category-to-name map of a feature list
MapOf(features) == [c \in Categories(features) |-> NameIn(features, c)]

\* the resolved features of the group with reference_id n of the AST
Resolved(n) == resolve_group_features(ast.groups[n], ast.groups)

\* the (group, token) positions of the AST in group order, then token order
RECURSIVE PositionsFrom(_, _)
PositionsFrom(gs, n) ==
  IF gs = <<>> THEN <<>>
  ELSE [k \in 1..Len(Head(gs).tokens) |-> <<n, k>>]
         \o PositionsFrom(Tail(gs), n + 1)

Positions == PositionsFrom(ast.groups, 1)

\* the token a lookup was issued for
TokenOf(l) == ast.groups[l.group].tokens[l.token]

(***************************************************************************)
(* C1: in an accepted grouping template, a group written (...)@$N resolves *)
(* to the resolved features of group N (transitively), and each of its     *)
(* tokens without direct features is looked up with exactly the            *)
(* category-to-name map of group N.                                        *)
(* Stated as the claim; refuted by $0, which the parser accepts and the    *)
(* resolver reads as the last group.                                       *)
(***************************************************************************)
C1_ReferenceInheritsGroupN ==
  AcceptedV2 =>
    /\ \A i \in 1..Len(ast.groups) :
         LET N == ast.groups[i].references
         IN N # NoReference =>
              /\ N \in 1..Len(ast.groups)
              /\ Resolved(i).ok
              /\ Resolved(N).ok
              /\ MapOf(Resolved(i).val) = MapOf(Resolved(N).val)
    /\ \A k \in 1..Len(lookups) :
         LET l == lookups[k]
             N == ast.groups[l.group].references
         IN (N # NoReference /\ TokenOf(l).direct_features = <<>>) =>
              /\ N \in 1..Len(ast.groups)
              /\ Resolved(N).ok
              /\ l.features = MapOf(Resolved(N).val)

(***************************************************************************)
(* C2: the feature map of every lookup is the category-keyed merge of the  *)
(* group's resolved features with the token's direct features: a category  *)
(* of the direct features carries the direct name, any other category of   *)
(* the resolved features carries the group's name, nothing else appears.   *)
(***************************************************************************)
C2_LookupMapIsMerge ==
  \A k \in 1..Len(lookups) :
    LET l == lookups[k]
        direct == TokenOf(l).direct_features
        group_features == Resolved(l.group).val
    IN /\ DOMAIN l.features = Categories(direct) \cup Categories(group_features)
       /\ \A c \in Categories(direct) : l.features[c] = NameIn(direct, c)
       /\ \A c \in Categories(group_features) \ Categories(direct) :
            l.features[c] = NameIn(group_features, c)

\* a lookup whose token overrides one category of its group and inherits others
C2_Witness ==
  \E k \in 1..Len(lookups) :
    LET direct == TokenOf(lookups[k]).direct_features
        group_features == Resolved(lookups[k].group).val
    IN /\ Categories(direct) \cap Categories(group_features) # {}
       /\ Categories(group_features) \ Categories(direct) # {}
       /\ \E c \in Categories(direct) :
            /\ c \in Categories(group_features)
            /\ NameIn(direct, c) # NameIn(group_features, c)

(***************************************************************************)
(* C3: for every looked-up token, exactly one override event per category  *)
(* that is both in its direct features and in its group's resolved         *)
(* features, carrying the old and the new value; none for a category       *)
(* absent from the resolved features; the lookup is still issued.          *)
(* Stated as the claim; refuted by a token with two direct features of one *)
(* category, which the parser accepts.                                     *)
(***************************************************************************)
C3_OneEventPerOverriddenCategory ==
  /\ \A k \in 1..Len(lookups) :
       LET l == lookups[k]
           direct == TokenOf(l).direct_features
           group_features == Resolved(l.group).val
           events(c) == {w \in 1..Len(warnings) :
                           /\ warnings[w].group = l.group
                           /\ warnings[w].token = l.token
                           /\ warnings[w].category = c}
       IN \A c \in Categories(direct) \cup Categories(group_features) :
            IF c \in Categories(direct) /\ c \in Categories(group_features)
              THEN /\ Cardinality(events(c)) = 1
                   /\ \A w \in events(c) :
                        /\ warnings[w].old = NameIn(group_features, c)
                        /\ warnings[w].new = NameIn(direct, c)
              ELSE events(c) = {}
  /\ \A w \in 1..Len(warnings) :
       \E k \in 1..Len(lookups) :
         /\ lookups[k].group = warnings[w].group
         /\ lookups[k].token = warnings[w].token

(***************************************************************************)
(* C4: in every AST a successful grouping parse returns, each group with   *)
(* references = N has 1 <= N < its reference_id.                           *)
(* Stated as the claim; refuted by $0.                                     *)
(***************************************************************************)
C4_ReferencesPointBackward ==
  AcceptedV2 =>
    \A i \in 1..Len(ast.groups) :
      LET N == ast.groups[i].references
      IN N # NoReference => (1 <= N /\ N < ast.groups[i].reference_id)

\* the group reached from group i after following k references the way
\* the resolver follows them; 0 when the chain ended or left the list
RECURSIVE Follow(_, _)
Follow(i, k) ==
  IF k = 0 THEN i
  ELSE LET j == Follow(i, k - 1)
       IN IF j = 0 \/ ast.groups[j].references = NoReference THEN 0
          ELSE IF ast.groups[j].references = 0 THEN Len(ast.groups)
          ELSE IF ast.groups[j].references <= Len(ast.groups)
            THEN ast.groups[j].references
          ELSE 0

(***************************************************************************)
(* C5: for every AST the grouping parser returns, resolve_group_features   *)
(* terminates for every group: its reference chain reaches a group without *)
(* a reference in fewer steps than there are groups.                       *)
(* Stated as the claim; refuted by (noun)@$0, whose chain never ends.      *)
(***************************************************************************)
C5_ResolutionTerminates ==
  AcceptedV2 =>
    \A i \in 1..Len(ast.groups) :
      /\ Resolved(i).ok
      /\ \E k \in 0..(Len(ast.groups) - 1) :
           /\ Follow(i, k) # 0
           /\ ast.groups[Follow(i, k)].references = NoReference

\* group i of the extracted groups has a reference the validation must reject
Offending(i) ==
  LET N == groups[i].references
  IN N # NoReference /\ (N > Len(groups) \/ N >= groups[i].reference_id)

\* the validation of the extracted groups has run
Validated ==
  /\ parser = "v2"
  /\ \/ ast.version = 2
     \/ error.kind \in {"NonExistentReference", "ForwardOrSelfReference"}

(***************************************************************************)
(* C6: reference validation rejects a reference N greater than the number  *)
(* of groups with NonExistentReference, and a reference N within the group *)
(* count but not smaller than the group's own reference_id with            *)
(* ForwardOrSelfReference; the first offending group in template order     *)
(* decides the error.                                                      *)
(***************************************************************************)
C6_FirstOffendingGroupDecides ==
  Validated =>
    LET bad == {i \in 1..Len(groups) : Offending(i)}
    IN IF bad = {}
         THEN /\ ast = TemplateAST(groups, 2)
              /\ error.kind \notin {"NonExistentReference",
                                   "ForwardOrSelfReference"}
         ELSE LET first == CHOOSE i \in bad : \A j \in bad : i <= j
                  N == groups[first].references
              IN /\ pc = "failed"
                 /\ ast = NoAST
                 /\ error.type = "ValueError"
                 /\ error.kind = IF N > Len(groups)
                                   THEN "NonExistentReference"
                                   ELSE "ForwardOrSelfReference"

\* a template rejected for the self reference of its first group although a
\* later group names a group past the end
C6_Witness ==
  /\ Validated
  /\ error.kind = "ForwardOrSelfReference"
  /\ Offending(1)
  /\ \E j \in 2..Len(groups) : groups[j].references > Len(groups)

C8_OneWordPerTokenInOrder ==
  /\ Len(lookups) <= Len(Positions)
  /\ \A i \in 1..Len(lookups) :
       <<lookups[i].group, lookups[i].token>> = Positions[i]
  /\ \A i \in 1..Len(lexicals) :
       /\ i <= Len(lookups)
       /\ lookups[i].outcome = "word"
       /\ lexicals[i].id = i
       /\ lexicals[i].lexical = TokenOf(lookups[i]).lexical
       /\ lexicals[i].features = lookups[i].features
  /\ pc = "done" =>
       /\ result = lexicals
       /\ Len(result) = Len(Positions)
       /\ Len(lookups) = Len(Positions)

\* a returned sentence of at least three words from at least two groups, one
\* of them with two tokens
C8_Witness ==
  /\ pc = "done"
  /\ Len(result) >= 3
  /\ Len(ast.groups) >= 2
  /\ \E i \in 1..Len(ast.groups) : Len(ast.groups[i].tokens) >= 2

\* t is s without its leading and trailing whitespace
IsTrimOf(t, s) ==
  \E i \in 1..(Len(s) + 1) :
    \E j \in 0..Len(s) :
      /\ t = SubSeq(s, i, j)
      /\ \A k \in 1..(i - 1) : s[k] \in Whitespace
      /\ \A k \in (j + 1)..Len(s) : s[k] \in Whitespace
      /\ t # <<>> => (t[1] \notin Whitespace /\ t[Len(t)] \notin Whitespace)

(***************************************************************************)
(* C9: generate trims the template and dispatches on the first character   *)
(* only: empty after trimming raises EmptyTemplate, "[" selects the        *)
(* bracket parser, "(" the grouping parser, anything else raises           *)
(* InvalidTemplateLeadCharacter before any extraction runs.                *)
(***************************************************************************)
C9_DispatchOnFirstCharacter ==
  pc # "idle" =>
    /\ IsTrimOf(template, input)
    /\ IF template = <<>>
         THEN /\ pc = "failed"
              /\ error.kind = "EmptyTemplate"
              /\ parser = "none"
       ELSE IF template[1] = "[" THEN parser = "v1"
       ELSE IF template[1] = "(" THEN parser = "v2"
       ELSE /\ pc = "failed"
            /\ error.kind = "InvalidTemplateLeadCharacter"
            /\ parser = "none"
    /\ parser = "none" => (groups = <<>> /\ ast = NoAST /\ lookups = <<>>)
    /\ parser = "v1" => groups = <<>>

\* a padded template whose first character after trimming is neither
\* bracket, although a bracket or group follows later in the text
C9_Witness ==
  /\ error.kind = "InvalidTemplateLeadCharacter"
  /\ input # template
  /\ template # <<>>

\* the errors raised by the dispatch and by the two parsers
ParseErrorKinds ==
  {"EmptyTemplate", "InvalidTemplateLeadCharacter", "NoTokensFound",
   "UnknownLexicalType", "UnexpectedFeatures", "WrongFeatureArity",
   "InvalidOrDuplicateFeature", "MissingRequiredFeature",
   "UnbalancedDelimiters", "UnbalancedBraces", "EmptyGroup", "UnknownFeature",
   "AmbiguousFeature", "NonExistentReference", "ForwardOrSelfReference"}

(***************************************************************************)
(* C10: a call that ends with a parse error has issued no lookup; the      *)
(* first lookup happens only after the whole template has been parsed and  *)
(* its references validated.                                               *)
(***************************************************************************)
C10_NoLookupBeforeParsed ==
  /\ error.kind \in ParseErrorKinds => lookups = <<>>
  /\ lookups # <<>> =>
       /\ pc \in {"groups", "tokens", "done", "failed"}
       /\ ast.version \in {1, 2}
       /\ parser = "v2" =>
            /\ ast = TemplateAST(groups, 2)
            /\ \A i \in 1..Len(groups) : ~Offending(i)

\* a template rejected for its last group although its first group could
\* have been looked up
C10_Witness ==
  /\ error.kind \in {"NonExistentReference", "ForwardOrSelfReference"}
  /\ Len(groups) >= 2
  /\ groups[1].references = NoReference
  /\ groups[1].tokens # <<>>
  /\ lookups = <<>>

(***************************************************************************)
(* C11: the failures of a call are of two kinds a caller can tell apart by *)
(* the class of the exception: a malformed template, rejected by the       *)
(* dispatch or by a parser, never fails with the class that a lookup       *)
(* without a match fails with.                                             *)
(* Stated as the claim; refuted by every template the dispatch or the      *)
(* grouping parser rejects: they raise ValueError, as the no-match does.   *)
(***************************************************************************)
C11_ParseAndNoMatchClassesDiffer ==
  (pc = "failed" /\ error.kind \in ParseErrorKinds) =>
    error.type # NoMatchingWord(<<>>, <<>>).type

(***************************************************************************)
(* Vocabulary of the properties of direct calls.                           *)
(***************************************************************************)
\* the direct call of op has returned a value
Returned(op) == call.op = op /\ call.returned /\ call.ret.ok

\* the direct call of op has raised an exception
Raised(op) == call.op = op /\ call.returned /\ ~call.ret.ok

\* the stripped segments of a span
Segments(span) == StripEach(Split(span, ":"))

(***************************************************************************)
(* C12: a bracket template with N spans that parses gives an AST of        *)
(* version 1 with exactly N groups in span order, each with one token of   *)
(* the span's lexical type and no direct features, references = None and   *)
(* reference_id equal to the 1-based position of the span.                 *)
(***************************************************************************)
C12_OneGroupPerSpan ==
  Returned("V1Parser.parse") =>
    LET spans == FindSpans(call.arg, 1)
        tree == call.ret.val
    IN /\ tree.version = 1
       /\ Len(tree.groups) = Len(spans)
       /\ \A i \in 1..Len(tree.groups) :
            /\ Len(tree.groups[i].tokens) = 1
            /\ tree.groups[i].tokens[1].lexical = Head(Segments(spans[i]))
            /\ tree.groups[i].tokens[1].direct_features = <<>>
            /\ tree.groups[i].references = NoReference
            /\ tree.groups[i].reference_id = i

\* a parsed template of three spans of three different lexical types
C12_Witness ==
  /\ Returned("V1Parser.parse")
  /\ Len(call.ret.val.groups) = 3
  /\ Cardinality({call.ret.val.groups[i].tokens[1].lexical : i \in 1..3}) = 3

\* the call parsed a template of exactly one span
ParsedOneSpan ==
  Returned("V1Parser.parse") /\ Len(FindSpans(call.arg, 1)) = 1

\* the lexical type and the feature tokens of the only span of the template
SpanLexical == Head(Segments(FindSpans(call.arg, 1)[1]))

SpanFeatures == Tail(Segments(FindSpans(call.arg, 1)[1]))

\* the feature list taken in the order p
Permuted(features, p) == [i \in 1..Len(features) |-> features[p[i]]]

\* the category-to-name feature set of the only group of a parsed template
FeatureSetOf(ret) == MapOf(ret.val.groups[1].group_features)

(***************************************************************************)
(* C13: the feature segments of a noun, adjective, article, verb or        *)
(* pronoun span may be written in any order: when a span parses, every     *)
(* permutation of its feature tokens parses too and gives the identical    *)
(* category-to-name feature set, each token under its own category.        *)
(***************************************************************************)
C13_FeatureOrderIndependent ==
  (ParsedOneSpan
     /\ SpanLexical \in {NOUN, ADJECTIVE, ARTICLE, VERB, PRONOUN}) =>
    /\ DOMAIN FeatureSetOf(call.ret)
         = {ItemValue(FEATURE_CATEGORIES, SpanFeatures[i]) :
              i \in 1..Len(SpanFeatures)}
    /\ \A i \in 1..Len(SpanFeatures) :
         FeatureSetOf(call.ret)[ItemValue(FEATURE_CATEGORIES, SpanFeatures[i])]
           = SpanFeatures[i]
    /\ \A p \in Permutations(1..Len(SpanFeatures)) :
         LET other == V1Parser_parse(SpanOf(SpanLexical,
                                            Permuted(SpanFeatures, p)))
         IN /\ other.ok
            /\ FeatureSetOf(other) = FeatureSetOf(call.ret)

\* a parsed pronoun span of four features that starts with its gender and
\* ends with its case
C13_Witness ==
  /\ ParsedOneSpan
  /\ SpanLexical = PRONOUN
  /\ Len(SpanFeatures) = 4
  /\ SpanFeatures[1] \in GENDER_VALUES
  /\ SpanFeatures[4] \in CASE_VALUES

\* V1Parser.parse was called with a template of exactly one span and has
\* returned or raised
CalledOneSpan ==
  /\ call.op = "V1Parser.parse"
  /\ call.returned
  /\ Len(FindSpans(call.arg, 1)) = 1

\* the exception the call raised is of the given kind
RaisedKind(kind) == ~call.ret.ok /\ call.ret.err.kind = kind

\* the feature counts Syntax-A accepts for a lexical type that has a rule
Arities(lexical) ==
  CASE lexical \in {ADVERB, PREPOSITION, CONJUNCTION} -> {0}
    [] lexical \in {NOUN, ADJECTIVE, ARTICLE} -> {3}
    [] lexical = VERB -> {4}
    [] lexical = PRONOUN -> {3, 4}

CoversNominal(features) ==
  /\ Len(features) = 3
  /\ \A values \in {CASE_VALUES, GENDER_VALUES, NUMBER_VALUES} :
       Cardinality({i \in 1..3 : features[i] \in values}) = 1

(***************************************************************************)
(* C15: a noun, adjective or article span with three feature tokens is     *)
(* accepted if and only if the tokens cover case, gender and number        *)
(* exactly once each; otherwise (a second token of a category, a token of  *)
(* no allowed category) it raises InvalidOrDuplicateFeature; an accepted   *)
(* span never carries two features of one category.                        *)
(***************************************************************************)
C15_NominalCoverage ==
  (CalledOneSpan /\ SpanLexical \in {NOUN, ADJECTIVE, ARTICLE}
     /\ Len(SpanFeatures) = 3) =>
    IF CoversNominal(SpanFeatures)
      THEN /\ call.ret.ok
           /\ LET features == call.ret.val.groups[1].group_features
              IN /\ Len(features) = 3
                 /\ Categories(features) = {CASE_, GENDER, NUMBER}
      ELSE RaisedKind("InvalidOrDuplicateFeature")

\* an article span refused for a second, different case token, its gender
\* missing
C15_Witness ==
  /\ CalledOneSpan
  /\ SpanLexical = ARTICLE
  /\ Len(SpanFeatures) = 3
  /\ SpanFeatures[1] \in CASE_VALUES
  /\ SpanFeatures[2] \in CASE_VALUES \ {SpanFeatures[1]}
  /\ SpanFeatures[3] \in NUMBER_VALUES
  /\ RaisedKind("InvalidOrDuplicateFeature")

\* the call of a mapper has returned or raised
Mapped(op) == call.op = op /\ call.returned

\* the category the feature table gives a key
TableCategory(key) ==
  LET i == CHOOSE i \in 1..Len(FEATURE_CATEGORIES) :
             FEATURE_CATEGORIES[i][1] = key
  IN FEATURE_CATEGORIES[i][2]

\* the keys of the feature table that have the token as a prefix
KeysWithPrefix(token) == {key \in FeatureKeys : StartsWith(key, token)}

(***************************************************************************)
(* C16: the feature mapper returns (token, its category) whenever the      *)
(* token is a key of the table, even when it is a proper prefix of other   *)
(* keys; otherwise it returns the single key that has the token as a       *)
(* prefix with that key's category, raises UnknownFeature when no key has, *)
(* and raises AmbiguousFeature listing every matching key when several     *)
(* have.                                                                   *)
(***************************************************************************)
C16_ExactThenUniquePrefix ==
  Mapped("FeatureMapper.get_category") =>
    LET token == call.arg
        ret == call.ret
    IN IF token \in FeatureKeys
         THEN ret.ok /\ ret.val = Feature(token, TableCategory(token))
       ELSE IF KeysWithPrefix(token) = {}
         THEN /\ ~ret.ok
              /\ ret.err.kind = "UnknownFeature"
              /\ ret.err.lexical = token
       ELSE IF Cardinality(KeysWithPrefix(token)) = 1
         THEN /\ ret.ok
              /\ ret.val.name \in KeysWithPrefix(token)
              /\ ret.val.category = TableCategory(ret.val.name)
       ELSE /\ ~ret.ok
            /\ ret.err.kind = "AmbiguousFeature"
            /\ {ret.err.features[i] : i \in 1..Len(ret.err.features)}
                 = KeysWithPrefix(token)
            /\ Len(ret.err.features) = Cardinality(KeysWithPrefix(token))

\* the key person, a proper prefix of the keys personal_strong and
\* personal_weak, resolved to itself
C16_Witness ==
  /\ Mapped("FeatureMapper.get_category")
  /\ call.arg = PERSON
  /\ Cardinality(KeysWithPrefix(PERSON)) = 3
  /\ call.ret.ok
  /\ call.ret.val = Feature(PERSON, PERSON)

\* the category each canonical feature value belongs to (constants.py)
CanonicalCategory(value) ==
  CASE value \in CASE_VALUES -> CASE_
    [] value \in GENDER_VALUES -> GENDER
    [] value \in NUMBER_VALUES -> NUMBER
    [] value \in TENSE_VALUES -> TENSE
    [] value \in VOICE_VALUES -> VOICE
    [] value \in MOOD_VALUES -> MOOD
    [] value \in PERSON_VALUES -> PERSON
    [] value \in PRONOUN_TYPES -> TYPE

CanonicalValues ==
  CASE_VALUES \cup GENDER_VALUES \cup NUMBER_VALUES \cup TENSE_VALUES
    \cup VOICE_VALUES \cup MOOD_VALUES \cup PERSON_VALUES \cup PRONOUN_TYPES

(***************************************************************************)
(* C17: resolving a canonical value of case, gender, number, tense, voice, *)
(* mood, person or pronoun type returns that value unchanged, paired with  *)
(* its category.                                                           *)
(* Stated as the claim; refuted by the mood values, which the table does   *)
(* not hold: ind resolves to the pronoun type indefinite, imp is unknown.  *)
(***************************************************************************)
C17_CanonicalValuesResolveToThemselves ==
  (Mapped("FeatureMapper.get_category") /\ call.arg \in CanonicalValues) =>
    /\ call.ret.ok
    /\ call.ret.val = Feature(call.arg, CanonicalCategory(call.arg))

\* the lexical type names that have the token as a prefix
LexicalsWithPrefix(token) ==
  {lexical \in LEXICAL_VALUES : StartsWith(lexical, token)}

(***************************************************************************)
(* C18: the lexical mapper resolves each of the nine lexical type names to *)
(* itself and a prefix of exactly one name to that name, raises            *)
(* AmbiguousLexicalType listing the conflicts for a prefix of several      *)
(* names and UnknownLexicalType for a prefix of none: the results of the   *)
(* exact-match-first algorithm of the feature mapper.                      *)
(***************************************************************************)
C18_LexicalExactThenUniquePrefix ==
  Mapped("LexicalMapper.get_lexical") =>
    LET token == call.arg
        ret == call.ret
    IN IF token \in LEXICAL_VALUES
         THEN ret.ok /\ ret.val = token
       ELSE IF LexicalsWithPrefix(token) = {}
         THEN /\ ~ret.ok
              /\ ret.err.kind = "UnknownLexicalType"
              /\ ret.err.lexical = token
       ELSE IF Cardinality(LexicalsWithPrefix(token)) = 1
         THEN ret.ok /\ ret.val \in LexicalsWithPrefix(token)
       ELSE /\ ~ret.ok
            /\ ret.err.kind = "AmbiguousLexicalType"
            /\ ret.err.features = LexicalsWithPrefix(token)

\* the prefix p, shared by pronoun and preposition, refused as ambiguous
C18_Witness ==
  /\ Mapped("LexicalMapper.get_lexical")
  /\ call.arg = <<"p">>
  /\ ~call.ret.ok
  /\ call.ret.err.kind = "AmbiguousLexicalType"
  /\ call.ret.err.features = {PRONOUN, PREPOSITION}

(***************************************************************************)
(* C19: the grouping parser stores each token's lexical type as the        *)
(* canonical lexical type name its written name resolves to, so every      *)
(* token of an accepted grouping template carries one of the nine names,   *)
(* and a name that matches no lexical type never reaches the lexicon.      *)
(* Stated as the claim; refuted by (article adj noun)@{nom:masc:sg}, whose *)
(* second token is stored and looked up as adj.                            *)
(***************************************************************************)
C19_GroupingLexicalsCanonical ==
  /\ AcceptedV2 =>
       \A g \in 1..Len(ast.groups) :
         \A t \in 1..Len(ast.groups[g].tokens) :
           ast.groups[g].tokens[t].lexical \in LEXICAL_VALUES
  /\ parser = "v2" =>
       \A k \in 1..Len(lookups) : lookups[k].lexical \in LEXICAL_VALUES

\* every segment of the only span resolves through its mapper
SpanResolves ==
  /\ get_lexical(SpanLexical).ok
  /\ \A i \in 1..Len(SpanFeatures) : get_category(SpanFeatures[i]).ok

\* the only span written with the names its segments resolve to
CanonicalSpan ==
  SpanOf(get_lexical(SpanLexical).val,
         [i \in 1..Len(SpanFeatures) |->
            get_category(SpanFeatures[i]).val.name])

(***************************************************************************)
(* C20: the bracket parser resolves segment 0 of a span through the        *)
(* lexical mapper and the other segments through the feature mapper: a     *)
(* span whose segments are unambiguous abbreviations parses exactly as the *)
(* span written with the canonical names does ([adj:nom:masc:sg] as an     *)
(* adjective, [prep], [adv], [conj] as preposition, adverb, conjunction,   *)
(* pres as present).                                                       *)
(* Stated as the claim; refuted by [adj:nom:masc:sg], which raises         *)
(* UnknownLexicalType, and by [verb:pres:active:ter:sg], which raises      *)
(* InvalidOrDuplicateFeature.                                              *)
(***************************************************************************)
C20_BracketAbbreviationsCanonicalised ==
  (CalledOneSpan /\ SpanResolves) =>
    call.ret = V1Parser_parse(CanonicalSpan)

\* the templates of the pool whose feature list holds a wildcard token in
\* the form of the integration tests, with the category of the wildcard
WildcardTemplates ==
  { [text |-> GroupText(NOUN, Braced(Colon(NOMINATIVE,
                                           Colon(GenderStar, SINGULAR)))),
     category |-> GENDER],
    [text |-> GroupText(NOUN, Braced(Colon(NOMINATIVE,
                                           Colon(MASCULINE, NumberStar)))),
     category |-> NUMBER] }

(***************************************************************************)
(* C21: a template whose feature list holds a wildcard token written as    *)
(* gender* or number* is not rejected by the parser, and every lookup of   *)
(* the call is issued with a feature map that has no entry for the         *)
(* category of the wildcard.                                               *)
(***************************************************************************)
C21_WildcardOmitsCategory ==
  \A w \in WildcardTemplates :
    input = w.text =>
      /\ ~(pc = "failed" /\ error.kind \in ParseErrorKinds)
      /\ pc \in {"groups", "tokens", "done"} => Len(ast.groups) = 1
      /\ \A i \in 1..Len(lookups) : w.category \notin DOMAIN lookups[i].features

\* the calls of the session: those that ended and the current one
SessionCalls ==
  IF pc = "idle" THEN history ELSE Append(history, Ended)

\* what a lookup asked of the lexicon
Asked(lookup) == [lexical |-> lookup.lexical, features |-> lookup.features]

\* two calls issued the same lookups as far as both of them got
SameLookups(a, b) ==
  /\ \A k \in 1..Len(a.lookups) :
       k <= Len(b.lookups) => Asked(a.lookups[k]) = Asked(b.lookups[k])
  /\ (a.pc = "done" /\ b.pc = "done") => Len(a.lookups) = Len(b.lookups)
  /\ (a.pc = "done" /\ Len(b.lookups) > 0) => Len(b.lookups) <= Len(a.lookups)

(***************************************************************************)
(* C22: any two calls of one session that were given the same template     *)
(* string asked the lexicon the same questions in the same order (the same *)
(* lexical type and the same feature map at every position both reached,   *)
(* and equally many when both returned), whatever calls came before them.  *)
(***************************************************************************)
C22_LookupsIndependentOfEarlierCalls ==
  \A i, j \in 1..Len(SessionCalls) :
    SessionCalls[i].input = SessionCalls[j].input =>
      SameLookups(SessionCalls[i], SessionCalls[j])

\* a template generated first, another template generated after it, and
\* the first template generated again to the end
C22_Witness ==
  /\ Len(history) = 2
  /\ pc = "done"
  /\ Len(lookups) = 2
  /\ history[1].input = input
  /\ history[1].pc = "done"
  /\ history[2].input # input
  /\ history[2].lookups # <<>>

\* the locals of caller c's call
FrameOf(c) == IF c = running THEN CurrentFrame ELSE frames[c]

\* the AST a call with template t parses when no other call runs, or the
\* error it ends with
SoloParse(stripped, version) ==
  IF ~version.ok THEN version
  ELSE IF version.val = "v1" THEN V1Parser_parse(stripped)
  ELSE V2Parser_parse(stripped)

SoloAST(t) == SoloParse(Strip(t), DetectVersion(Strip(t)))

\* the feature map token k of group g of the AST a is looked up with
SoloMap(a, g, k) ==
  feature_dict(merge_features(resolve_group_features(a.groups[g], a.groups).val,
                              a.groups[g].tokens[k].direct_features,
                              TRUE).merged)

\* the lookups and the result of the frame F are those of the AST a
SoloLookups(F, a, positions) ==
  /\ Len(F.lookups) <= Len(positions)
  /\ \A k \in 1..Len(F.lookups) :
       /\ <<F.lookups[k].group, F.lookups[k].token>> = positions[k]
       /\ F.lookups[k].lexical = a.groups[positions[k][1]]
                                    .tokens[positions[k][2]].lexical
       /\ F.lookups[k].features = SoloMap(a, positions[k][1], positions[k][2])
  /\ F.pc = "tokens" => <<F.gi, F.ti>> = positions[Len(F.lookups) + 1]
  /\ F.pc = "done" =>
       /\ Len(F.lookups) = Len(positions)
       /\ Len(F.result) = Len(positions)
       /\ \A k \in 1..Len(F.result) :
            /\ F.result[k].lexical = F.lookups[k].lexical
            /\ F.result[k].features = F.lookups[k].features

\* the frame F is in a state the call of its template reaches when it runs
\* alone, solo being what that call parses
Alone(F, solo) ==
  /\ F.pc \in {"groups", "tokens", "done"} => solo.ok /\ F.ast = solo.val
  /\ F.lookups # <<>> => solo.ok /\ F.ast = solo.val
  /\ F.pc = "tokens" => F.resolved = resolve_group_features(
                                       solo.val.groups[F.gi],
                                       solo.val.groups).val
  /\ (F.pc = "failed" /\ F.lookups = <<>>) => ~solo.ok /\ F.error = solo.err
  /\ solo.ok => SoloLookups(F, solo.val, PositionsFrom(solo.val.groups, 1))

(***************************************************************************)
(* C23: whatever the interleaving of the callers' calls, every call holds  *)
(* the AST its own template parses to, resolves the features of its own    *)
(* groups, issues the lookups of its own tokens in order with the feature  *)
(* maps of a call that runs alone, and returns one word per token.         *)
(***************************************************************************)
C23_InterleavedCallsAreIsolated ==
  \A c \in 1..MaxCallers : Alone(FrameOf(c), SoloAST(FrameOf(c).input))

\* a caller suspended between two lookups of a group, while another caller
\* with another template has resolved other features and is about to look a
\* token up
C23_Witness ==
  \E c \in 1..MaxCallers :
    /\ c # running
    /\ frames[c].pc = "tokens"
    /\ frames[c].lookups # <<>>
    /\ pc = "tokens"
    /\ input # frames[c].input
    /\ resolved # frames[c].resolved

\* the raw text s holds "(", then blanks only, then ")@"
EmptyGroupIn(s) ==
  \E p, q \in 1..Len(s) :
    /\ p < q
    /\ q < Len(s)
    /\ s[p] = "("
    /\ s[q] = ")"
    /\ s[q + 1] = "@"
    /\ \A i \in (p + 1)..(q - 1) : s[i] \in Whitespace

\* the text s holds the word w at position p
HoldsAt(s, p, w) ==
  /\ p + Len(w) - 1 <= Len(s)
  /\ SubSeq(s, p, p + Len(w) - 1) = w

(***************************************************************************)
(* C24: V2Parser.parse decides on the raw text before it extracts a group: *)
(* unequal counts of "(" and ")" raise UnbalancedDelimiters; otherwise     *)
(* unequal counts of "{" and "}" raise UnbalancedBraces; otherwise "(",    *)
(* blanks, ")@" anywhere raises EmptyGroup; whatever unknown feature or    *)
(* bad reference the template holds besides.                               *)
(***************************************************************************)
C24_RawTextChecksComeFirst ==
  (call.op = "V2Parser.parse" /\ call.returned) =>
    /\ Count(call.arg, "(") # Count(call.arg, ")") =>
         RaisedKind("UnbalancedDelimiters")
    /\ (/\ Count(call.arg, "(") = Count(call.arg, ")")
        /\ Count(call.arg, "{") # Count(call.arg, "}")) =>
         RaisedKind("UnbalancedBraces")
    /\ (/\ Count(call.arg, "(") = Count(call.arg, ")")
        /\ Count(call.arg, "{") = Count(call.arg, "}")
        /\ EmptyGroupIn(call.arg)) =>
         RaisedKind("EmptyGroup")
    /\ RaisedKind("UnbalancedDelimiters") =>
         Count(call.arg, "(") # Count(call.arg, ")")
    /\ RaisedKind("UnbalancedBraces") =>
         Count(call.arg, "{") # Count(call.arg, "}")
    /\ RaisedKind("EmptyGroup") => EmptyGroupIn(call.arg)

\* an empty group written after a group with an unknown feature: the empty
\* group decides
C24_Witness ==
  /\ call.op = "V2Parser.parse"
  /\ RaisedKind("EmptyGroup")
  /\ \E p \in 1..Len(call.arg) :
       /\ HoldsAt(call.arg, p, <<"{", "x", "x", "}">>)
       /\ \E q \in (p + 4)..Len(call.arg) :
            HoldsAt(call.arg, q, <<"(", ")", "@">>)

(***************************************************************************)
(* C25: in every AST V2Parser.parse returns, the k-th group of the list    *)
(* has reference_id k, counting from 1, whatever $N the groups were        *)
(* written with and whatever text between the groups was passed over.      *)
(***************************************************************************)
C25_ReferenceIdIsPosition ==
  Returned("V2Parser.parse") =>
    \A k \in 1..Len(call.ret.val.groups) :
      call.ret.val.groups[k].reference_id = k

\* three groups, the second and the third written with $1
C25_Witness ==
  /\ Returned("V2Parser.parse")
  /\ Len(call.ret.val.groups) = 3
  /\ call.ret.val.groups[2].references = 1
  /\ call.ret.val.groups[3].references = 1
  /\ call.ret.val.groups[3].reference_id = 3

\* no two features of the list have the same category
OnePerCategory(features) ==
  \A i, j \in 1..Len(features) :
    features[i].category = features[j].category => i = j

(***************************************************************************)
(* C26: in every AST V2Parser.parse returns, the group_features of every   *)
(* group and the direct_features of every token hold at most one feature   *)
(* of a category.                                                          *)
(* Stated as the claim; refuted by {nom:acc} and by noun{masc:fem}, which  *)
(* the parser returns with both features.                                  *)
(***************************************************************************)
C26_OneFeaturePerCategory ==
  Returned("V2Parser.parse") =>
    \A k \in 1..Len(call.ret.val.groups) :
      /\ OnePerCategory(call.ret.val.groups[k].group_features)
      /\ \A t \in 1..Len(call.ret.val.groups[k].tokens) :
           OnePerCategory(call.ret.val.groups[k].tokens[t].direct_features)

\* the call has parsed its template
Parsed ==
  \/ pc \in {"groups", "tokens", "done"}
  \/ pc = "failed" /\ error.kind \notin ParseErrorKinds

(***************************************************************************)
(* C27: from the moment the template is parsed to the end of the call,     *)
(* returned or failed, the AST is the one the parser produced for the      *)
(* template: resolving a group and merging the features of a token change  *)
(* no group_features, references, tokens or direct_features, those of a    *)
(* referenced group included.                                              *)
(***************************************************************************)
C27_GenerationLeavesASTUnchanged ==
  Parsed =>
    /\ SoloAST(input).ok
    /\ ast = SoloAST(input).val

\* a returned call in which a group with a reference was resolved to the
\* features of the group it references and still has none of its own
C27_Witness ==
  /\ pc = "done"
  /\ \E k \in 1..Len(lookups) :
       /\ ast.groups[lookups[k].group].references = 1
       /\ ast.groups[lookups[k].group].group_features = <<>>
       /\ ast.groups[1].group_features # <<>>
       /\ DOMAIN lookups[k].features # {}
       /\ TokenOf(lookups[k]).direct_features = <<>>

\* texts that are not groups although they look like one: no feature
\* section, nested parentheses, a signed reference
NoGroupTexts ==
  { <<"(">> \o NOUN \o <<")">>,
    <<"(", "(">> \o ARTICLE \o <<")", ")", "@">>
      \o Braced(Colon(NOMINATIVE, SINGULAR)),
    GroupText(NOUN, <<"$", "-", "1">>) }

\* V2Parser.parse returned an AST with n groups for the template t
ParsedGroups(t, n) ==
  (call.op = "V2Parser.parse" /\ call.arg = t /\ call.returned) =>
    call.ret.ok /\ Len(call.ret.val.groups) = n

CommaList == NOMINATIVE \o <<",">> \o MASCULINE \o <<",">> \o SINGULAR

(***************************************************************************)
(* C29: a group feature list written with commas parses to the same        *)
(* group_features as the list written with colons: V2Parser.parse of       *)
(* (noun)@{nom,masc,sg} returns what it returns for (noun)@{nom:masc:sg}.  *)
(* Stated as the claim; refuted because the parser splits on ":" only and  *)
(* asks the feature table for the name "nom,masc,sg".                      *)
(***************************************************************************)
C29_CommaSeparatesFeatures ==
  (/\ call.op = "V2Parser.parse"
   /\ call.arg = GroupText(NOUN, Braced(CommaList))
   /\ call.returned) =>
    /\ call.ret.ok
    /\ call.ret = V2Parser_parse(GroupText(NOUN, Braced(NomMascSg)))

\* direct features a token could have been written with instead
OtherDirect ==
  { <<>>,
    <<Feature(FEMININE, GENDER)>>,
    <<Feature(PLURAL, NUMBER), Feature(GENITIVE, CASE_)>> }

\* the AST a with the direct features d on every token but token k of
\* group g
WithOthers(a, g, k, d) ==
  [a EXCEPT !.groups =
     [i \in 1..Len(a.groups) |->
        [a.groups[i] EXCEPT !.tokens =
           [j \in 1..Len(a.groups[i].tokens) |->
              IF i = g /\ j = k THEN a.groups[i].tokens[j]
              ELSE POSToken(a.groups[i].tokens[j].lexical, d)]]]]

(***************************************************************************)
(* C30: the feature map a token is looked up with is the one it would be   *)
(* looked up with whatever direct features the other tokens of the         *)
(* template had: the direct features of a token reach neither the other    *)
(* tokens of its group nor the groups that reference its group.            *)
(***************************************************************************)
C30_DirectFeaturesStayWithTheirToken ==
  \A n \in 1..Len(lookups) :
    \A d \in OtherDirect :
      lookups[n].features =
        SoloMap(WithOthers(ast, lookups[n].group, lookups[n].token, d),
                lookups[n].group, lookups[n].token)

\* a token looked up with its own gender, a token of the same group and a
\* token of a group referencing that group looked up with the gender of the
\* group
C30_Witness ==
  \E a, b, c \in 1..Len(lookups) :
    /\ lookups[a].group = 1
    /\ Categories(TokenOf(lookups[a]).direct_features) = {GENDER}
    /\ lookups[a].features[GENDER] = FEMININE
    /\ lookups[b].group = 1
    /\ TokenOf(lookups[b]).direct_features = <<>>
    /\ lookups[b].features[GENDER] = MASCULINE
    /\ ast.groups[lookups[c].group].references = 1
    /\ TokenOf(lookups[c]).direct_features = <<>>
    /\ lookups[c].features[GENDER] = MASCULINE

====
